---- MODULE Spec2Model ----
(***************************************************************************)
(* Session-scoped conversational relay of repo-prompt-web:                 *)
(*   SessionStorage   (handlers package, src/Dockerfile)                   *)
(*   AIService        (src/internal/app/service/ai_service.go)             *)
(*   gemini.Client    (src/internal/infrastructure/gemini/client.go)       *)
(*   types.TreeNode   (src/README.md)                                      *)
(*                                                                         *)
(* Text is modelled as a sequence of tokens; a token is an indivisible run *)
(* of characters, so string concatenation is \o and "" is << >>.           *)
(* Time is counted in minutes and measured from the present: time.Now() is *)
(* 0 and a stored timestamp is 0 or negative.  When the clock advances,    *)
(* every stored timestamp moves back by the same amount; one that is older *)
(* than every comparison the code makes stays where it is.                 *)
(***************************************************************************)
EXTENDS Integers, Sequences, FiniteSets

(***************************************************************************)
(* Bounds of the model                                                     *)
(***************************************************************************)
NumHandles == 2      \* uuid values clients can name in a request
MaxMsgs == 3         \* messages one conversation can come to hold
MaxChunks == 1       \* chunks the upstream pushes on one stream channel
MaxDepth == 3        \* segments of a path handed to AddPath
MaxTurns == 11       \* questions asked on the conversation seen on its own
MaxFiles == 12       \* entries of the content map handed to buildInitialPrompt

(***************************************************************************)
(* Program constants (minutes)                                             *)
(***************************************************************************)
expiresIn == 30              \* sessionStorage = NewSessionStorage(30 * time.Minute)
conversationTTL == 120       \* 2*time.Hour in cleanupExpiredSessions
historyWindow == 10          \* len(context.Messages) > 10
maxPromptFiles == 10         \* fileCount >= 10
maxFileChars == 5000         \* len(fileContent) > 5000
respChanCap == 100           \* make(chan gemini.StreamChunk, 100)

TickMinutes == expiresIn     \* the clock advances in steps of one session TTL
Now == 0                     \* time.Now()
\* A timestamp t after the clock has advanced by TickMinutes; a timestamp
\* more than ttl old compares the same however old it is.
Aged(t, ttl) == IF Now - t > ttl THEN t ELSE t - TickMinutes

\* The slots HTTP request goroutines run in: two requests at a time.
Procs == {1, 2}
Handles == 1..NumHandles

(***************************************************************************)
(* Text                                                                    *)
(***************************************************************************)
\* A literal run of characters.
Lit(s) == [txt |-> s, n |-> -1]
\* The first n characters of the file text named txt.
Body(txt, n) == [txt |-> txt, n |-> n]

Str(s) == << Lit(s) >>

IsPrefix(s, t) == Len(s) <= Len(t) /\ SubSeq(t, 1, Len(s)) = s

\* StringBuilder.AppendLine: the line, then "\n".
AppendLine(sb, line) == sb \o line \o Str("\n")

(***************************************************************************)
(* types.TreeNode and its rendering                                        *)
(***************************************************************************)
NoChildren == [k \in {} |-> 0]

\* NewTreeNode(name, isDir): Children starts as an empty map.
NewTreeNode(name, isDir) == [Name |-> name, IsDir |-> isDir, Children |-> NoChildren]

\* The names the model uses, in ascending order of Go's string comparison.
NameOrder == << "", "a.go", "b.go", "img.png", "src" >>
NameRank(s) == CHOOSE i \in 1..Len(NameOrder) : NameOrder[i] = s

\* The comparator handed to sort.Slice in Print: directories first, then by name.
ChildLess(a, b) == IF a.IsDir # b.IsDir THEN a.IsDir ELSE NameRank(a.Name) < NameRank(b.Name)

RECURSIVE SortNodes(_)
SortNodes(S) ==
    IF S = {} THEN << >>
    ELSE LET m == CHOOSE x \in S : \A y \in S \ {x} : ChildLess(x, y)
         IN  << m >> \o SortNodes(S \ {m})

SortedChildren(n) == SortNodes({ n.Children[k] : k \in DOMAIN n.Children })

RECURSIVE PrintNode(_, _, _)
RECURSIVE PrintChildren(_, _, _)
\* TreeNode.Print (Print is a reserved name here): the text written to the buffer for node n.
PrintNode(n, prefix, isLast) ==
    LET named == n.Name # ""
        line  == IF named
                 THEN prefix \o Str(IF isLast THEN "\\-- " ELSE "|-- ") \o Str(n.Name) \o Str("\n")
                 ELSE << >>
        pfx   == IF named
                 THEN prefix \o Str(IF isLast THEN "    " ELSE "|   ")
                 ELSE prefix
    IN  line \o PrintChildren(SortedChildren(n), 1, pfx)

PrintChildren(children, i, prefix) ==
    IF i > Len(children) THEN << >>
    ELSE PrintNode(children[i], prefix, i = Len(children))
         \o PrintChildren(children, i + 1, prefix)

\* TreeNode.AddPath from segment i on: a segment the node has no child for
\* gets a new child (a directory unless it is the last segment); a child that
\* exists is walked into as it is.
RECURSIVE addParts(_, _, _)
addParts(n, parts, i) ==
    IF i > Len(parts) THEN n
    ELSE LET part  == parts[i]
             isDir == i # Len(parts)
             child == IF part \in DOMAIN n.Children
                      THEN n.Children[part]
                      ELSE NewTreeNode(part, isDir)
         IN  [n EXCEPT !.Children =
                 [k \in DOMAIN n.Children \cup {part} |->
                     IF k = part THEN addParts(child, parts, i + 1)
                     ELSE n.Children[k]]]

\* TreeNode.AddPath; parts is strings.Split(path, "/"), and << >> stands for
\* the empty path.
AddPath(n, parts) == IF parts = << >> THEN n ELSE addParts(n, parts, 1)

\* The paths the extraction hands to AddPath: up to MaxDepth segments.
SegmentNames == {"src", "a.go"}
\* Paths with an empty segment, as strings.Split makes them of "/a.go" and
\* of "src//a.go".
OddPaths == { << "", "a.go" >>, << "src", "", "a.go" >> }
TreePaths == UNION { [1..d -> SegmentNames] : d \in 0..MaxDepth } \cup OddPaths

(***************************************************************************)
(* Prompt Assembler                                                        *)
(***************************************************************************)
\* The file loop without its cap on the number of files.
RECURSIVE appendFilesUncapped(_, _, _, _, _)
appendFilesUncapped(sb, contents, order, i, fileCount) ==
    IF i > Len(order) THEN sb
    ELSE LET path    == order[i]
             content == contents[path]
             fileContent ==
                 IF content.Content.len > maxFileChars
                 THEN << Body(content.Content.txt, maxFileChars) >> \o Str("...(truncated)")
                 ELSE << Body(content.Content.txt, content.Content.len) >>
             sb1 == AppendLine(sb, Str("\n### ") \o Str(path))
             sb2 == AppendLine(sb1, Str("~~~"))
             sb3 == AppendLine(sb2, fileContent)
             sb4 == AppendLine(sb3, Str("~~~"))
         IN  IF content.IsBase64
             THEN appendFilesUncapped(sb, contents, order, i + 1, fileCount)
             ELSE appendFilesUncapped(sb4, contents, order, i + 1, fileCount + 1)

\* One pass of the file loop of buildInitialPrompt over the iteration
\* order (a sequence of the keys of FileContents), from position i.
RECURSIVE appendFiles(_, _, _, _, _)
appendFiles(sb, contents, order, i, fileCount) ==
    IF i > Len(order) \/ fileCount >= maxPromptFiles THEN sb
    ELSE LET path    == order[i]
             content == contents[path]
             fileContent ==
                 IF content.Content.len > maxFileChars
                 THEN << Body(content.Content.txt, maxFileChars) >> \o Str("...(truncated)")
                 ELSE << Body(content.Content.txt, content.Content.len) >>
             sb1 == AppendLine(sb, Str("\n### ") \o Str(path))
             sb2 == AppendLine(sb1, Str("~~~"))
             sb3 == AppendLine(sb2, fileContent)
             sb4 == AppendLine(sb3, Str("~~~"))
         IN  IF content.IsBase64
             THEN appendFiles(sb, contents, order, i + 1, fileCount)
             ELSE appendFiles(sb4, contents, order, i + 1, fileCount + 1)

\* AIService.buildInitialPrompt.  A pointer is a sequence of length 0 (nil)
\* or 1; order is the order in which range result.FileContents visits
\* the keys.
buildInitialPrompt(result, projectAnalysis, order) ==
    LET sb0 == AppendLine(<< >>, Str("SYSTEM: code analysis assistant"))
        sb1 == IF Len(projectAnalysis) > 0 /\ Len(projectAnalysis[1].PromptSuggestions) > 0
               THEN AppendLine(AppendLine(sb0, Str("\n## architecture analysis")),
                               projectAnalysis[1].PromptSuggestions[1])
               ELSE sb0
        sb2 == AppendLine(sb1, Str("\n## file structure"))
        sb3 == IF Len(result.FileTree) > 0
               THEN AppendLine(sb2, PrintNode(result.FileTree[1], << >>, TRUE))
               ELSE sb2
        sb4 == AppendLine(sb3, Str("\n## file contents"))
    IN  appendFiles(sb4, result.FileContents, order, 1, 0)

\* The orders in which a Go map with key set K can be iterated.
IterationOrders(K) ==
    { o \in [1..Cardinality(K) -> K] : \A i, j \in DOMAIN o : i # j => o[i] # o[j] }

\* First-turn prompt: InitialPrompt + "\n\n## question\n" + question.
firstPrompt(context, question) ==
    context.InitialPrompt \o Str("\n\n## question\n") \o question

RECURSIVE appendHistory(_, _, _)
appendHistory(sb, msgs, i) ==
    IF i > Len(msgs) THEN sb
    ELSE appendHistory(
             AppendLine(sb, Str("\n") \o Str(msgs[i].Role) \o Str(": ") \o msgs[i].Content),
             msgs, i + 1)

\* A follow-up prompt that renders the whole history.
followupPromptUnwindowed(context) ==
    LET sb1 == AppendLine(<< >>, context.InitialPrompt)
        sb2 == AppendLine(sb1, Str("\n## conversation history"))
    IN  appendHistory(sb2, context.Messages, 1)

\* Follow-up prompt: InitialPrompt, the history header, the last 10 messages.
followupPrompt(context) ==
    LET sb1 == AppendLine(<< >>, context.InitialPrompt)
        sb2 == AppendLine(sb1, Str("\n## conversation history"))
        startIdx == IF Len(context.Messages) > historyWindow
                    THEN Len(context.Messages) - historyWindow
                    ELSE 0
    IN  appendHistory(sb2, context.Messages, startIdx + 1)

\* The prompt branch with the first-turn test off by one (<= 2).
buildPromptOffByOne(context, question) ==
    IF Len(context.Messages) <= 2
    THEN firstPrompt(context, question)
    ELSE followupPrompt(context)

\* A prompt branch that keeps the first-turn form until an answer is recorded.
buildPromptUntilAnswered(context, question) ==
    IF \A i \in 1..Len(context.Messages) : context.Messages[i].Role = "user"
    THEN firstPrompt(context, question)
    ELSE followupPrompt(context)

\* The prompt branch of AskQuestionAboutCode / AskQuestionAboutCodeStream.
buildPrompt(context, question) ==
    IF Len(context.Messages) <= 1
    THEN firstPrompt(context, question)
    ELSE followupPrompt(context)

(***************************************************************************)
(* Inputs: the code contexts the extraction collaborators hand to Put, the *)
(* questions clients ask, the texts the LLM endpoint answers with          *)
(***************************************************************************)
fileA == [Path |-> "src/a.go", Content |-> [txt |-> "a.go", len |-> 3], IsBase64 |-> FALSE]
fileB == [Path |-> "b.go", Content |-> [txt |-> "b.go", len |-> 6000], IsBase64 |-> FALSE]
fileImg == [Path |-> "img.png", Content |-> [txt |-> "img.png", len |-> 8], IsBase64 |-> TRUE]

treeA ==
    [Name |-> "", IsDir |-> FALSE,
     Children |-> [k \in {"b.go", "src"} |->
        IF k = "b.go" THEN NewTreeNode("b.go", FALSE)
        ELSE [Name |-> "src", IsDir |-> TRUE,
              Children |-> [j \in {"a.go"} |-> NewTreeNode("a.go", FALSE)]]]]

resultA == [FileTree |-> << treeA >>,
            FileContents |-> [k \in {"src/a.go", "b.go"} |-> IF k = "b.go" THEN fileB ELSE fileA]]
resultB == [FileTree |-> << >>,
            FileContents |-> [k \in {"img.png"} |-> fileImg]]

analysisB == [PromptSuggestions |-> << Str("overview") >>]

\* The (result, projectAnalysis) pair of the k-th upload: uploads alternate
\* between two code contexts.
PutInput(k) == IF k % 2 = 1
               THEN [result |-> resultA, analysis |-> << >>]
               ELSE [result |-> resultB, analysis |-> << analysisB >>]

\* The question the client of request slot p asks.
Question(p) == IF p % 2 = 1 THEN Str("q1") ELSE Str("q2")
Answers == { Str("a1"), Str("a2") }
\* The text of the k-th fragment an upstream stream delivers.
Fragment(k) == IF k % 2 = 1 THEN Str("Hel") ELSE Str("lo")

(***************************************************************************)
(* SessionStorage (Session Store).  Put, Get and the sweep hold ss.mu for  *)
(* their whole body and call nothing that blocks, so each is one step.     *)
(***************************************************************************)
NoSession == [k \in {} |-> 0]

\* A Put that starts the map over with the new entry.
PutReplacing(ss, sessionID, result, analysis, t) ==
    [k \in {sessionID} |->
        [Result |-> result, ProjectAnalysis |-> analysis, CreatedAt |-> t]]

\* SessionStorage.Put: the map after storing the entry under sessionID.
Put(ss, sessionID, result, analysis, t) ==
    [k \in DOMAIN ss \cup {sessionID} |->
        IF k = sessionID
        THEN [Result |-> result, ProjectAnalysis |-> analysis, CreatedAt |-> t]
        ELSE ss[k]]

\* Get without the lazy expiry check: an entry the sweep has not removed yet
\* is still served.
GetNoExpiry(ss, sessionID, t) ==
    IF sessionID \notin DOMAIN ss
    THEN [data |-> << >>, exists |-> FALSE]
    ELSE [data |-> << ss[sessionID] >>, exists |-> TRUE]

\* Get with the expiry comparison off by one: an entry exactly expiresIn old
\* counts as expired.
GetExpiresEarly(ss, sessionID, t) ==
    IF sessionID \notin DOMAIN ss
    THEN [data |-> << >>, exists |-> FALSE]
    ELSE IF t - ss[sessionID].CreatedAt >= expiresIn
         THEN [data |-> << >>, exists |-> FALSE]
         ELSE [data |-> << ss[sessionID] >>, exists |-> TRUE]

\* Get with an entry counted as expired only after twice expiresIn.
GetTwiceTheTTL(ss, sessionID, t) ==
    IF sessionID \notin DOMAIN ss
    THEN [data |-> << >>, exists |-> FALSE]
    ELSE IF t - ss[sessionID].CreatedAt > 2 * expiresIn
         THEN [data |-> << >>, exists |-> FALSE]
         ELSE [data |-> << ss[sessionID] >>, exists |-> TRUE]

\* SessionStorage.Get: (SessionData, bool); data is a sequence of length 0
\* for the zero SessionData{} and of length 1 for a found session.
Get(ss, sessionID, t) ==
    IF sessionID \notin DOMAIN ss
    THEN [data |-> << >>, exists |-> FALSE]
    ELSE IF t - ss[sessionID].CreatedAt > expiresIn
         THEN [data |-> << >>, exists |-> FALSE]
         ELSE [data |-> << ss[sessionID] >>, exists |-> TRUE]

\* A sweep pass that also removes an entry exactly expiresIn old.
cleanExpiredSessionsEarly(ss, t) ==
    [k \in { id \in DOMAIN ss : ~(t - ss[id].CreatedAt >= expiresIn) } |-> ss[k]]

\* SessionStorage.cleanExpiredSessions: the map after one pass of the sweep.
cleanExpiredSessions(ss, t) ==
    [k \in { id \in DOMAIN ss : ~(t - ss[id].CreatedAt > expiresIn) } |-> ss[k]]

(***************************************************************************)
(* AIService (Conversation Store): the in-memory map operations            *)
(***************************************************************************)
\* A sweep pass that also removes a context exactly conversationTTL idle.
cleanupExpiredSessionsEarly(hist, t) ==
    [k \in { id \in DOMAIN hist : ~(t - hist[id].LastActive >= conversationTTL) } |-> hist[k]]

\* AIService.cleanupExpiredSessions: the map after one pass of the sweep.
cleanupExpiredSessions(hist, t) ==
    [k \in { id \in DOMAIN hist : ~(t - hist[id].LastActive > conversationTTL) } |-> hist[k]]

\* A lookup that builds the initial prompt anew on every Ask.
lookupOrRebuild(hist, sessionID, result, analysis, order, t) ==
    [InitialPrompt |-> buildInitialPrompt(result, analysis, order),
     Messages |-> IF sessionID \in DOMAIN hist THEN hist[sessionID].Messages ELSE << >>,
     LastActive |-> t]

\* The context the Ask works on: the stored one, or a new one holding the
\* initial prompt.
lookupOrCreate(hist, sessionID, result, analysis, order, t) ==
    IF sessionID \in DOMAIN hist
    THEN hist[sessionID]
    ELSE [InitialPrompt |-> buildInitialPrompt(result, analysis, order),
          Messages |-> << >>,
          LastActive |-> t]

\* A question step that starts the history over with the question.
appendQuestionReset(context, question, t) ==
    [context EXCEPT !.LastActive = t,
                    !.Messages = << [Role |-> "user", Content |-> question] >>]

\* A question step that stamps the context and records nothing.
appendQuestionDropped(context, question, t) ==
    [context EXCEPT !.LastActive = t]

\* A question step that leaves the first question of a conversation out.
appendQuestionSkipsFirst(context, question, t) ==
    [context EXCEPT !.LastActive = t,
                    !.Messages = IF @ = << >> THEN @
                                 ELSE Append(@, [Role |-> "user", Content |-> question])]

\* context.LastActive = time.Now(); context.Messages = append(..., user question)
appendQuestion(context, question, t) ==
    [context EXCEPT !.LastActive = t,
                    !.Messages = Append(@, [Role |-> "user", Content |-> question])]

\* A store that writes the context under every key of the map.
storeEverywhere(hist, sessionID, context) ==
    [k \in DOMAIN hist \cup {sessionID} |-> context]

\* s.sessionHistory[sessionID] = context (a pointer: later writes through
\* context are writes to the stored entry).
store(hist, sessionID, context) ==
    [k \in DOMAIN hist \cup {sessionID} |-> IF k = sessionID THEN context ELSE hist[k]]

\* An answer append that makes a new entry when there is none.
appendAnswerCreating(hist, sessionID, response) ==
    [k \in DOMAIN hist \cup {sessionID} |->
        IF k # sessionID THEN hist[k]
        ELSE IF sessionID \in DOMAIN hist
        THEN [hist[k] EXCEPT !.Messages =
                 Append(@, [Role |-> "assistant", Content |-> response])]
        ELSE [InitialPrompt |-> << >>,
              Messages |-> << [Role |-> "assistant", Content |-> response] >>,
              LastActive |-> Now]]

\* An answer step that records nothing.
appendAnswerDropped(hist, sessionID, response) == hist

\* An answer append that writes over an answer that is the last message.
appendAnswerOverLast(hist, sessionID, response) ==
    IF sessionID \in DOMAIN hist
    THEN LET m == hist[sessionID].Messages
             answer == [Role |-> "assistant", Content |-> response]
         IN  [hist EXCEPT ![sessionID].Messages =
                 IF Len(m) > 0 /\ m[Len(m)].Role = "assistant"
                 THEN [m EXCEPT ![Len(m)] = answer]
                 ELSE Append(m, answer)]
    ELSE hist

\* The answer append: only if the entry exists under sessionID at that time.
appendAnswer(hist, sessionID, response) ==
    IF sessionID \in DOMAIN hist
    THEN [hist EXCEPT ![sessionID].Messages =
              Append(@, [Role |-> "assistant", Content |-> response])]
    ELSE hist

\* An Ask that forgets s.mu.Unlock() before the call: the goroutine keeps s.mu.
muKeptAfterQuestion(self) == self

\* The holder of s.mu once the question section of an Ask ends (s.mu.Unlock()
\* before the prompt is printed and sent): nobody.
muAfterQuestion(self) == 0

(***************************************************************************)
(* gemini.Client.SendPrompt: one pass of the retry loop                    *)
(***************************************************************************)
maxRetries == 3              \* SendPrompt: maxRetries := 3
retryDelaySeconds == 2       \* retryDelay := 2 * time.Second
streamMaxRetries == 2        \* SendPromptStream: maxRetries := 2
resultChanCap == 100         \* make(chan StreamChunk, 100)

\* What one HTTP exchange can come to.
Transport == [kind |-> "transport", status |-> 0, decodable |-> FALSE,
              blockReason |-> "", candidates |-> << >>]
Status(code) == [kind |-> "response", status |-> code, decodable |-> FALSE,
                 blockReason |-> "", candidates |-> << >>]
Undecodable == [kind |-> "response", status |-> 200, decodable |-> FALSE,
                blockReason |-> "", candidates |-> << >>]
Blocked == [kind |-> "response", status |-> 200, decodable |-> TRUE,
            blockReason |-> "SAFETY", candidates |-> << >>]
\* candidates: for each candidate, the texts of its content parts.
Reply(cands) == [kind |-> "response", status |-> 200, decodable |-> TRUE,
                 blockReason |-> "", candidates |-> cands]

HttpOutcomes ==
    { Transport, Status(400), Status(500), Undecodable, Blocked,
      Reply(<< >>), Reply(<< << >> >>), Reply(<< << << >> >> >>) }
    \cup { Reply(<< << a >> >>) : a \in Answers }

\* The loop body with every error status of 400 and above retried.
sendPromptAttemptRetries4xx(attempt, o) ==
    IF o.kind = "transport"
    THEN [ctl |-> "continue", response |-> << >>, err |-> "nil"]
    ELSE IF o.status < 200 \/ o.status >= 300
    THEN IF o.status >= 400 /\ attempt < maxRetries - 1
         THEN [ctl |-> "continue", response |-> << >>, err |-> "nil"]
         ELSE [ctl |-> "return", response |-> << >>, err |-> "api_error"]
    ELSE IF ~o.decodable
    THEN IF attempt < maxRetries - 1
         THEN [ctl |-> "continue", response |-> << >>, err |-> "nil"]
         ELSE [ctl |-> "return", response |-> << >>, err |-> "decode_failed"]
    ELSE IF o.blockReason # ""
    THEN [ctl |-> "return", response |-> << >>, err |-> "blocked"]
    ELSE IF Len(o.candidates) = 0 \/ Len(o.candidates[1]) = 0
    THEN IF attempt < maxRetries - 1
         THEN [ctl |-> "continue", response |-> << >>, err |-> "nil"]
         ELSE [ctl |-> "return", response |-> << >>, err |-> "empty_response"]
    ELSE [ctl |-> "break", response |-> o.candidates[1][1], err |-> "nil"]

\* The loop body with a decode failure returned at once.
sendPromptAttemptNoDecodeRetry(attempt, o) ==
    IF o.kind = "transport"
    THEN [ctl |-> "continue", response |-> << >>, err |-> "nil"]
    ELSE IF o.status < 200 \/ o.status >= 300
    THEN IF o.status >= 500 /\ attempt < maxRetries - 1
         THEN [ctl |-> "continue", response |-> << >>, err |-> "nil"]
         ELSE [ctl |-> "return", response |-> << >>, err |-> "api_error"]
    ELSE IF ~o.decodable
    THEN [ctl |-> "return", response |-> << >>, err |-> "decode_failed"]
    ELSE IF o.blockReason # ""
    THEN [ctl |-> "return", response |-> << >>, err |-> "blocked"]
    ELSE IF Len(o.candidates) = 0 \/ Len(o.candidates[1]) = 0
    THEN IF attempt < maxRetries - 1
         THEN [ctl |-> "continue", response |-> << >>, err |-> "nil"]
         ELSE [ctl |-> "return", response |-> << >>, err |-> "empty_response"]
    ELSE [ctl |-> "break", response |-> o.candidates[1][1], err |-> "nil"]

\* The loop body giving up on a server error one attempt early.
sendPromptAttemptGivesUpEarly(attempt, o) ==
    IF o.kind = "transport"
    THEN [ctl |-> "continue", response |-> << >>, err |-> "nil"]
    ELSE IF o.status < 200 \/ o.status >= 300
    THEN IF o.status >= 500 /\ attempt < maxRetries - 2
         THEN [ctl |-> "continue", response |-> << >>, err |-> "nil"]
         ELSE [ctl |-> "return", response |-> << >>, err |-> "api_error"]
    ELSE IF ~o.decodable
    THEN IF attempt < maxRetries - 1
         THEN [ctl |-> "continue", response |-> << >>, err |-> "nil"]
         ELSE [ctl |-> "return", response |-> << >>, err |-> "decode_failed"]
    ELSE IF o.blockReason # ""
    THEN [ctl |-> "return", response |-> << >>, err |-> "blocked"]
    ELSE IF Len(o.candidates) = 0 \/ Len(o.candidates[1]) = 0
    THEN IF attempt < maxRetries - 1
         THEN [ctl |-> "continue", response |-> << >>, err |-> "nil"]
         ELSE [ctl |-> "return", response |-> << >>, err |-> "empty_response"]
    ELSE [ctl |-> "break", response |-> o.candidates[1][1], err |-> "nil"]

\* The body of the for loop of SendPrompt for one attempt that got outcome o:
\* ctl says how the pass ends (continue, return with err, break with response).
sendPromptAttempt(attempt, o) ==
    IF o.kind = "transport"
    THEN [ctl |-> "continue", response |-> << >>, err |-> "nil"]
    ELSE IF o.status < 200 \/ o.status >= 300
    THEN IF o.status >= 500 /\ attempt < maxRetries - 1
         THEN [ctl |-> "continue", response |-> << >>, err |-> "nil"]
         ELSE [ctl |-> "return", response |-> << >>, err |-> "api_error"]
    ELSE IF ~o.decodable
    THEN IF attempt < maxRetries - 1
         THEN [ctl |-> "continue", response |-> << >>, err |-> "nil"]
         ELSE [ctl |-> "return", response |-> << >>, err |-> "decode_failed"]
    ELSE IF o.blockReason # ""
    THEN [ctl |-> "return", response |-> << >>, err |-> "blocked"]
    ELSE IF Len(o.candidates) = 0 \/ Len(o.candidates[1]) = 0
    THEN IF attempt < maxRetries - 1
         THEN [ctl |-> "continue", response |-> << >>, err |-> "nil"]
         ELSE [ctl |-> "return", response |-> << >>, err |-> "empty_response"]
    ELSE [ctl |-> "break", response |-> o.candidates[1][1], err |-> "nil"]

\* A return after the loop without the test for an empty response.
sendPromptResultUnchecked(response) == [response |-> response, err |-> "nil"]

\* What SendPrompt returns once the loop has ended without a return.
sendPromptResult(response) ==
    IF response = << >>
    THEN [response |-> << >>, err |-> "max_retries"]
    ELSE [response |-> response, err |-> "nil"]

(***************************************************************************)
(* State                                                                   *)
(***************************************************************************)
VARIABLES
    apiKeySet,       \* Client.apiKey # "" (fixed when the client is built)
    sessions,        \* SessionStorage.sessions: sessionID -> SessionData
    issued,          \* the handles uuid.New() has returned so far
    sessionHistory,  \* AIService.sessionHistory: sessionID -> ConversationContext
    mu,              \* holder of AIService.mu: 0 (free) or a goroutine id
    req,             \* per request goroutine: HandleAskCodeQuestion and the Ask it runs
    relay,           \* per request goroutine: the goroutine its streamed Ask started
    responseChan,    \* per request goroutine: the channel the streamed Ask returned
    ret,             \* the HTTP response the step just taken wrote (NoRet: none)
    sent,            \* the prompt the step just taken handed to the gateway (NoPrompt: none)
    call,            \* one SendPrompt call seen on its own: its loop and the exchanges it made
    gw,              \* one SendPromptStream call seen on its own: its goroutine
    resultChan,      \* the channel that SendPromptStream call returned
    reader,          \* what the receiver of resultChan is doing
    tree,            \* one file tree seen on its own: the root AddPath is called on
    turn,            \* one conversation seen on its own, with the prompt of its latest question
    built            \* one buildInitialPrompt call seen on its own: its input and its prompt

\* The variables of the in-memory functions seen on their own.
unitVars == << tree, turn, built >>

\* The variables of one SendPromptStream call seen on its own.
streamVars == << gw, resultChan, reader >>

\* The variables of the gateway seen on its own.
gatewayVars == << call, streamVars >>

vars == << apiKeySet, sessions, issued, sessionHistory, mu,
           req, relay, responseChan, ret, sent, gatewayVars, unitVars >>

\* Goroutine ids for s.mu: the handler of slot p, and the relay it started.
HandlerId(p) == p
RelayId(p) == Cardinality(Procs) + p

IdleReq == [pc |-> "idle", sessionID |-> 0, question |-> << >>, stream |-> FALSE,
            result |-> << >>, analysis |-> << >>, response |-> << >>,
            attempt |-> 0, retryDelay |-> 0, qpos |-> 0, evicted |-> FALSE]
IdleRelay == [pc |-> "idle", sessionID |-> 0, builder |-> << >>, received |-> 0,
              pending |-> << >>, qpos |-> 0, evicted |-> FALSE]
\* A channel: buf lists every chunk sent on it so far, the first read of
\* them have been received; the chunks in the channel are the rest.
NoChan == [buf |-> << >>, read |-> 0, closed |-> FALSE]
NoRet == [p |-> 0, status |-> 0, sessionID |-> 0, body |-> << >>, err |-> "nil"]

NoPrompt == [p |-> 0, prompt |-> << >>]
\* No SendPrompt call made yet; outcomes lists what each HTTP exchange of the
\* call came to, in order.
IdleCall == [pc |-> "idle", attempt |-> 0, retryDelay |-> 0, slept |-> << >>,
             outcomes |-> << >>, response |-> << >>, err |-> "nil"]

\* The conversation seen on its own before its first question: the context
\* the first Ask makes and no prompt; pending says that a question waits for
\* its answer.
NoTurn == [context |-> [InitialPrompt |-> buildInitialPrompt(resultB, << analysisB >>,
                                                             << "img.png" >>),
                        Messages |-> << >>,
                        LastActive |-> Now],
           prompt |-> << >>,
           pending |-> FALSE]

\* buildInitialPrompt seen on its own: no content map extracted yet.
NoBuild == [result |-> << >>, order |-> << >>, prompt |-> << >>, done |-> FALSE]

\* No SendPromptStream call made yet.  requests counts the HTTP requests the
\* call has issued; scanned and pushed count the events read from the body
\* and the content chunks pushed in the current attempt; pending is the chunk
\* of the resultChan <- at which the goroutine stands, and next where it goes
\* once that send is done.
IdleStream == [pc |-> "idle", attempt |-> 0, requests |-> 0, bodyOpen |-> FALSE,
               successfulStream |-> FALSE, scanned |-> 0, pushed |-> 0,
               pending |-> << >>, next |-> "", err |-> "nil",
               retryDelay |-> retryDelaySeconds, slept |-> << >>]

TextChunk(text) == [Text |-> text, FinishReason |-> "", Error |-> "nil"]
ErrorChunk(e) == [Text |-> << >>, FinishReason |-> "", Error |-> e]

Init ==
    /\ apiKeySet \in BOOLEAN
    /\ sessions = NoSession
    /\ issued = {}
    /\ sessionHistory = NoSession
    /\ mu = 0
    /\ req = [p \in Procs |-> IdleReq]
    /\ relay = [p \in Procs |-> IdleRelay]
    /\ responseChan = [p \in Procs |-> NoChan]
    /\ ret = NoRet
    /\ sent = NoPrompt
    /\ call = IdleCall
    /\ gw = IdleStream
    /\ resultChan = NoChan
    /\ reader = "none"
    /\ tree = NewTreeNode("", FALSE)
    /\ turn = NoTurn
    /\ built = NoBuild

(***************************************************************************)
(* Clock, Session Store                                                    *)
(***************************************************************************)
\* The clock advances by TickMinutes.
Tick ==
    /\ sessions' = [k \in DOMAIN sessions |->
                        [sessions[k] EXCEPT !.CreatedAt = Aged(@, expiresIn)]]
    /\ sessionHistory' = [k \in DOMAIN sessionHistory |->
                        [sessionHistory[k] EXCEPT !.LastActive = Aged(@, conversationTTL)]]
    /\ ret' = NoRet
    /\ sent' = NoPrompt
    /\ UNCHANGED << unitVars, gatewayVars, apiKeySet, issued, mu, req, relay, responseChan >>

\* HandleCombineCode / HandleGitHubRepo: sessionStorage.Put(result, projectAnalysis)
\* under a fresh uuid (the handles are numbered in the order of their issue);
\* H holds the handles the run may issue.
PutSession(H) ==
    /\ Cardinality(issued) + 1 \in H
    /\ LET sessionID == Cardinality(issued) + 1
           input == PutInput(sessionID)
       IN  /\ sessions' = Put(sessions, sessionID, input.result, input.analysis, Now)
           /\ issued' = issued \cup {sessionID}
    /\ ret' = NoRet
    /\ sent' = NoPrompt
    /\ UNCHANGED << unitVars, gatewayVars, apiKeySet, sessionHistory, mu, req, relay, responseChan >>

\* One pass of the ticker loop of SessionStorage.cleanExpiredSessions.
SessionSweep ==
    /\ sessions' = cleanExpiredSessions(sessions, Now)
    /\ ret' = NoRet
    /\ sent' = NoPrompt
    /\ UNCHANGED << unitVars, gatewayVars, apiKeySet, issued, sessionHistory, mu,
                    req, relay, responseChan >>

\* One pass of the ticker loop of AIService.cleanupExpiredSessions: Lock,
\* the scan, Unlock, with nothing blocking in between.  An Ask whose question
\* is in a context this pass deletes is marked evicted (bookkeeping only).
ConversationSweep ==
    /\ mu = 0
    /\ sessionHistory' = cleanupExpiredSessions(sessionHistory, Now)
    /\ LET gone == DOMAIN sessionHistory \ DOMAIN sessionHistory'
       IN  /\ req' = [p \in Procs |->
                  IF req[p].qpos > 0 /\ req[p].sessionID \in gone
                  THEN [req[p] EXCEPT !.evicted = TRUE] ELSE req[p]]
           /\ relay' = [p \in Procs |->
                  IF relay[p].pc # "idle" /\ relay[p].sessionID \in gone
                  THEN [relay[p] EXCEPT !.evicted = TRUE] ELSE relay[p]]
    /\ ret' = NoRet
    /\ sent' = NoPrompt
    /\ UNCHANGED << unitVars, gatewayVars, apiKeySet, sessions, issued, mu, responseChan >>

(***************************************************************************)
(* HandleAskCodeQuestion and the blocking Ask                              *)
(***************************************************************************)
\* Messages the Asks in flight on sessionID may still append.
Pending(sessionID) ==
      2 * Cardinality({ p \in Procs : req[p].sessionID = sessionID
                                      /\ req[p].pc \in {"lock", "question"} })
    + Cardinality({ p \in Procs : req[p].sessionID = sessionID
                                  /\ req[p].pc \in {"send", "anslock", "answer", "sendstream"} })
    + Cardinality({ p \in Procs : relay[p].sessionID = sessionID /\ relay[p].pc # "idle" })

\* Whether the conversation of sessionID can take one more turn within cap
\* messages.
Room(sessionID, cap) ==
    (IF sessionID \in DOMAIN sessionHistory
     THEN Len(sessionHistory[sessionID].Messages) ELSE 0) + Pending(sessionID) + 2 <= cap

\* The handler writes its response and returns.
Respond(p, status, body, err) ==
    /\ ret' = [p |-> p, status |-> status, sessionID |-> req[p].sessionID,
               body |-> body, err |-> err]
    /\ req' = [req EXCEPT ![p] = IdleReq]

\* The head of HandleAskCodeQuestion, up to the choice between the two Asks.
\* question << >> is "", sessionID 0 is "".  A new request runs in the lowest
\* free slot (goroutine identities are interchangeable).
HandleAskCodeQuestion(p, cap) ==
    /\ req[p].pc = "idle"
    /\ relay[p].pc = "idle"
    /\ \A q \in Procs : q < p => (req[q].pc # "idle" \/ relay[q].pc # "idle")
    /\ \E question \in {Question(p), << >>}, sessionID \in Handles \cup {0},
          useStream \in BOOLEAN :
        LET got == Get(sessions, sessionID, Now)
            bad(status, err) ==
                [p |-> p, status |-> status, sessionID |-> sessionID,
                 body |-> << >>, err |-> err]
        IN  /\ IF question = << >>
               THEN ret' = bad(400, "no_question") /\ req' = req
               ELSE IF sessionID = 0
               THEN ret' = bad(400, "no_session_id") /\ req' = req
               ELSE IF ~got.exists
               THEN ret' = bad(404, "session_not_found") /\ req' = req
               ELSE /\ Room(sessionID, cap)
                    /\ ret' = NoRet
                    /\ req' = [req EXCEPT ![p] =
                          [IdleReq EXCEPT !.pc = "lock", !.sessionID = sessionID,
                                          !.question = question, !.stream = useStream,
                                          !.result = << got.data[1].Result >>,
                                          !.analysis = got.data[1].ProjectAnalysis]]
    /\ sent' = NoPrompt
    /\ UNCHANGED << unitVars, gatewayVars, apiKeySet, sessions, issued, sessionHistory, mu, relay, responseChan >>

\* s.mu.Lock() at the head of AskQuestionAboutCode / AskQuestionAboutCodeStream.
AskLock(p) ==
    /\ req[p].pc = "lock"
    /\ mu = 0
    /\ mu' = HandlerId(p)
    /\ req' = [req EXCEPT ![p].pc = "question"]
    /\ ret' = NoRet
    /\ sent' = NoPrompt
    /\ UNCHANGED << unitVars, gatewayVars, apiKeySet, sessions, issued, sessionHistory,
                    relay, responseChan >>

\* The locked section of both Asks: look up or create the context, record
\* the question, build the prompt, s.mu.Unlock().
AskQuestion(p) ==
    /\ req[p].pc = "question"
    /\ \E order \in IterationOrders(DOMAIN req[p].result[1].FileContents) :
        LET r == req[p]
            context == appendQuestion(
                           lookupOrCreate(sessionHistory, r.sessionID, r.result[1],
                                          r.analysis, order, Now),
                           r.question, Now)
        IN  /\ sessionHistory' = store(sessionHistory, r.sessionID, context)
            /\ mu' = muAfterQuestion(HandlerId(p))
            /\ req' = [req EXCEPT ![p] =
                  [r EXCEPT !.pc = IF r.stream THEN "sendstream" ELSE "send",
                            !.retryDelay = retryDelaySeconds,
                            !.qpos = Len(context.Messages)]]
            /\ sent' = [p |-> p, prompt |-> buildPrompt(context, r.question)]
    /\ ret' = NoRet
    /\ UNCHANGED << unitVars, gatewayVars, apiKeySet, sessions, issued, relay, responseChan >>

\* s.geminiClient.SendPrompt(prompt): the key check, then one pass of the
\* retry loop per step.  A failure makes the Ask return ("", err) and the
\* handler answer 500.
SendPrompt(p) ==
    /\ req[p].pc = "send"
    /\ IF ~apiKeySet
       THEN Respond(p, 500, << >>, "no_api_key")
       ELSE \E o \in HttpOutcomes :
            LET r == req[p]
                a == sendPromptAttempt(r.attempt, o)
                exhausted == sendPromptResult(<< >>)
                done == sendPromptResult(a.response)
            IN  IF a.ctl = "return"
                THEN Respond(p, 500, << >>, a.err)
                ELSE IF a.ctl = "continue"
                THEN IF r.attempt + 1 < maxRetries
                     THEN /\ req' = [req EXCEPT ![p].attempt = r.attempt + 1,
                                                ![p].retryDelay = r.retryDelay * 2]
                          /\ ret' = NoRet
                     ELSE Respond(p, 500, << >>, exhausted.err)
                ELSE IF done.err # "nil"
                THEN Respond(p, 500, << >>, done.err)
                ELSE /\ req' = [req EXCEPT ![p].pc = "anslock",
                                           ![p].response = done.response]
                     /\ ret' = NoRet
    /\ sent' = NoPrompt
    /\ UNCHANGED << unitVars, gatewayVars, apiKeySet, sessions, issued, sessionHistory, mu,
                    relay, responseChan >>

\* s.mu.Lock() before the answer is recorded.
AnswerLock(p) ==
    /\ req[p].pc = "anslock"
    /\ mu = 0
    /\ mu' = HandlerId(p)
    /\ req' = [req EXCEPT ![p].pc = "answer"]
    /\ ret' = NoRet
    /\ sent' = NoPrompt
    /\ UNCHANGED << unitVars, gatewayVars, apiKeySet, sessions, issued, sessionHistory,
                    relay, responseChan >>

\* The answer append of the blocking Ask, s.mu.Unlock(), return response, nil;
\* the handler answers 200 with the answer.
AnswerAppend(p) ==
    /\ req[p].pc = "answer"
    /\ sessionHistory' = appendAnswer(sessionHistory, req[p].sessionID, req[p].response)
    /\ mu' = 0
    /\ Respond(p, 200, req[p].response, "nil")
    /\ sent' = NoPrompt
    /\ UNCHANGED << unitVars, gatewayVars, apiKeySet, sessions, issued, relay, responseChan >>

(***************************************************************************)
(* The streamed Ask: AskQuestionAboutCodeStream after its locked section,  *)
(* the goroutine it starts, and the c.Stream loop of the handler           *)
(***************************************************************************)
\* The chunks the channel returned by SendPromptStream can deliver as its
\* k-th chunk.
UpstreamChunks(k) == { TextChunk(Fragment(k)), ErrorChunk("stream_error") }

\* A send that puts the chunk on the channel twice.
sendTwice(ch, chunk) == [ch EXCEPT !.buf = Append(Append(@, chunk), chunk)]

send(ch, chunk) == [ch EXCEPT !.buf = Append(@, chunk)]
close(ch) == [ch EXCEPT !.closed = TRUE]
\* The number of chunks in the channel, and the chunk a receive takes.
occupancy(ch) == Len(ch.buf) - ch.read
front(ch) == ch.buf[ch.read + 1]
receive(ch) == [ch EXCEPT !.read = @ + 1]
\* The channel once its reader (the handler) or its writer (the goroutine)
\* has returned: with both gone it is garbage.
released(ch, otherGone) == IF otherGone THEN NoChan ELSE ch

\* s.geminiClient.SendPromptStream(prompt) returns.  With an error (the key
\* is not configured): close(responseChan), return responseChan, err, and the
\* handler writes an error event.  Otherwise the goroutine starts and the
\* handler enters c.Stream.
SendPromptStream(p) ==
    /\ req[p].pc = "sendstream"
    /\ IF ~apiKeySet
       THEN /\ responseChan' = [responseChan EXCEPT ![p] = released(close(@), TRUE)]
            /\ Respond(p, 200, << >>, "no_api_key")
            /\ relay' = relay
       ELSE /\ relay' = [relay EXCEPT ![p] =
                  [IdleRelay EXCEPT !.pc = "recv", !.sessionID = req[p].sessionID,
                                    !.qpos = req[p].qpos,
                                    !.evicted = req[p].evicted]]
            /\ req' = [req EXCEPT ![p] =
                  [IdleReq EXCEPT !.pc = "stream", !.sessionID = req[p].sessionID]]
            /\ ret' = NoRet
            /\ UNCHANGED << responseChan >>
    /\ sent' = NoPrompt
    /\ UNCHANGED << unitVars, gatewayVars, apiKeySet, sessions, issued, sessionHistory, mu >>

\* A loop body that collects only the text of the latest chunk.
relayReceiveLatest(r, chunk) ==
    IF chunk.Error # "nil"
    THEN [r EXCEPT !.pc = "fwderr", !.pending = << chunk >>]
    ELSE [r EXCEPT !.pc = "fwd", !.pending = << chunk >>,
                   !.builder = chunk.Text, !.received = @ + 1]

\* The body of for chunk := range streamChan, up to the send: an error
\* chunk is about to be forwarded; a text chunk is collected first.
relayReceive(r, chunk) ==
    IF chunk.Error # "nil"
    THEN [r EXCEPT !.pc = "fwderr", !.pending = << chunk >>]
    ELSE [r EXCEPT !.pc = "fwd", !.pending = << chunk >>,
                   !.builder = @ \o chunk.Text, !.received = @ + 1]

\* A goroutine that, after it forwarded an error chunk, leaves the loop for
\* the answer append.
relayForwardedThenRecords(r) ==
    IF r.pc = "fwderr"
    THEN [r EXCEPT !.pc = "answer", !.pending = << >>]
    ELSE [r EXCEPT !.pc = "recv", !.pending = << >>]

\* A goroutine that goes on with the loop after it forwarded an error chunk.
relayForwardedGoesOn(r) == [r EXCEPT !.pc = "recv", !.pending = << >>]

\* The goroutine once responseChan <- chunk is done: it returns after an
\* error chunk, and goes on with the loop after a text chunk.
relayForwarded(r) ==
    IF r.pc = "fwderr" THEN IdleRelay ELSE [r EXCEPT !.pc = "recv", !.pending = << >>]

\* for chunk := range streamChan: one chunk arrives; chunks bounds the
\* chunks one stream delivers.
RelayChunk(p, chunks) ==
    /\ relay[p].pc = "recv"
    /\ relay[p].received < chunks
    /\ \E chunk \in UpstreamChunks(relay[p].received + 1) :
        relay' = [relay EXCEPT ![p] = relayReceive(@, chunk)]
    /\ ret' = NoRet
    /\ sent' = NoPrompt
    /\ UNCHANGED << unitVars, gatewayVars, apiKeySet, sessions, issued, sessionHistory, mu,
                    req, responseChan >>

\* responseChan <- chunk: blocks while the channel is full.  After an error
\* chunk the goroutine returns and the deferred close runs.
RelayForward(p) ==
    /\ relay[p].pc \in {"fwd", "fwderr"}
    /\ occupancy(responseChan[p]) < respChanCap
    /\ LET after == relayForwarded(relay[p])
           sentOn == send(responseChan[p], relay[p].pending[1])
       IN  /\ relay' = [relay EXCEPT ![p] = after]
           /\ responseChan' = [responseChan EXCEPT ![p] =
                  IF after.pc = "idle"
                  THEN released(close(sentOn), req[p].pc # "stream")
                  ELSE sentOn]
    /\ ret' = NoRet
    /\ sent' = NoPrompt
    /\ UNCHANGED << unitVars, gatewayVars, apiKeySet, sessions, issued, sessionHistory, mu,
                    req >>

\* streamChan is closed: the range loop ends and the goroutine takes s.mu.
RelayLock(p) ==
    /\ relay[p].pc = "recv"
    /\ mu = 0
    /\ mu' = RelayId(p)
    /\ relay' = [relay EXCEPT ![p].pc = "answer"]
    /\ ret' = NoRet
    /\ sent' = NoPrompt
    /\ UNCHANGED << unitVars, gatewayVars, apiKeySet, sessions, issued, sessionHistory,
                    req, responseChan >>

\* The answer append of the streamed Ask, s.mu.Unlock(), close(responseChan).
RelayAppend(p) ==
    /\ relay[p].pc = "answer"
    /\ sessionHistory' = appendAnswer(sessionHistory, relay[p].sessionID, relay[p].builder)
    /\ mu' = 0
    /\ responseChan' = [responseChan EXCEPT ![p] = released(close(@), req[p].pc # "stream")]
    /\ relay' = [relay EXCEPT ![p] = IdleRelay]
    /\ ret' = NoRet
    /\ sent' = NoPrompt
    /\ UNCHANGED << unitVars, gatewayVars, apiKeySet, sessions, issued, req >>

\* c.Stream: a chunk is read from responseChan.  An error chunk is written
\* as an error event and ends the loop; a text chunk is written as a message.
StreamChunk(p) ==
    /\ req[p].pc = "stream"
    /\ occupancy(responseChan[p]) > 0
    /\ LET chunk == front(responseChan[p])
       IN  /\ IF chunk.Error # "nil"
              THEN /\ Respond(p, 200, req[p].response, chunk.Error)
                   /\ responseChan' = [responseChan EXCEPT ![p] =
                          released(receive(@), relay[p].pc = "idle")]
              ELSE /\ responseChan' = [responseChan EXCEPT ![p] = receive(@)]
                   /\ req' = [req EXCEPT ![p].response = @ \o chunk.Text]
                   /\ ret' = NoRet
    /\ sent' = NoPrompt
    /\ UNCHANGED << unitVars, gatewayVars, apiKeySet, sessions, issued, sessionHistory, mu,
                    relay >>

\* c.Stream: responseChan is closed and drained (ok is false).
StreamClosed(p) ==
    /\ req[p].pc = "stream"
    /\ occupancy(responseChan[p]) = 0
    /\ responseChan[p].closed
    /\ Respond(p, 200, req[p].response, "nil")
    /\ responseChan' = [responseChan EXCEPT ![p] = released(@, relay[p].pc = "idle")]
    /\ sent' = NoPrompt
    /\ UNCHANGED << unitVars, gatewayVars, apiKeySet, sessions, issued, sessionHistory, mu, relay >>

\* c.Stream: clientGone fires; the handler returns, the goroutine goes on.
ClientGone(p) ==
    /\ req[p].pc = "stream"
    /\ Respond(p, 200, req[p].response, "client_gone")
    /\ responseChan' = [responseChan EXCEPT ![p] = released(@, relay[p].pc = "idle")]
    /\ sent' = NoPrompt
    /\ UNCHANGED << unitVars, gatewayVars, apiKeySet, sessions, issued, sessionHistory, mu, relay >>

\* The steps of the request goroutines in the slots P; cap bounds the length
\* of a conversation, chunks the chunks of one stream.
Requests(P, cap, chunks) ==
    \E p \in P :
        \/ HandleAskCodeQuestion(p, cap)
        \/ AskLock(p)
        \/ AskQuestion(p)
        \/ SendPrompt(p)
        \/ AnswerLock(p)
        \/ AnswerAppend(p)
        \/ SendPromptStream(p)
        \/ RelayChunk(p, chunks)
        \/ RelayForward(p)
        \/ RelayLock(p)
        \/ RelayAppend(p)
        \/ StreamChunk(p)
        \/ StreamClosed(p)
        \/ ClientGone(p)

\* One upload, its conversation over time: the clock, both sweeps, requests
\* that follow one another on the conversation.
Next ==
    \/ Tick
    \/ PutSession({1})
    \/ SessionSweep
    \/ ConversationSweep
    \/ Requests(Procs, MaxMsgs, MaxChunks)

Spec == Init /\ [][Next]_vars

\* One upload within its TTL (the clock stands still): the conversation can
\* hold one message more, so two Asks on the handle overlap.
NextRace ==
    \/ PutSession({1})
    \/ SessionSweep
    \/ ConversationSweep
    \/ Requests(Procs, MaxMsgs + 1, MaxChunks)

SpecRace == Init /\ [][NextRace]_vars

\* One upload over time with a single turn on its conversation: the clock,
\* both sweeps, expiry and eviction around one Ask.
NextExpiry ==
    \/ Tick
    \/ PutSession({1})
    \/ SessionSweep
    \/ ConversationSweep
    \/ Requests(Procs, MaxMsgs - 1, MaxChunks)

SpecExpiry == Init /\ [][NextExpiry]_vars

\* One upload within its TTL, one turn at a time, streams of one chunk more.
NextStream ==
    \/ PutSession({1})
    \/ Requests(Procs, MaxMsgs - 1, MaxChunks + 1)

SpecStream == Init /\ [][NextStream]_vars

\* One request at a time, with streams longer than responseChan can buffer.
NextStreamLong ==
    \/ PutSession({1})
    \/ Requests({1}, MaxMsgs - 1, respChanCap + 1)

SpecStreamLong == Init /\ [][NextStreamLong]_vars

\* Two uploads within their TTL, one turn on each conversation: Asks on
\* distinct handles overlap.  Streams are one chunk long: what the relay
\* does with longer ones is SpecStream's matter.
NextIsolation ==
    \/ PutSession({1, 2})
    \/ Requests(Procs, MaxMsgs - 1, 1)

SpecIsolation == Init /\ [][NextIsolation]_vars

\* One upload within its TTL, no sweep, two requests at a time on its
\* handle: two Asks that overlap from their questions to their answers.
\* Streams are one chunk long.
NextConcurrent ==
    \/ PutSession({1})
    \/ Requests(Procs, MaxMsgs + 1, 1)

SpecConcurrent == Init /\ [][NextConcurrent]_vars

\* One upload over time, two requests at a time on its handle, the
\* conversation sweep: a request that found its handle live can make the
\* conversation anew after the sweep has evicted it.  Streams are one chunk
\* long.
NextRecreate ==
    \/ Tick
    \/ PutSession({1})
    \/ ConversationSweep
    \/ Requests(Procs, MaxMsgs + 1, 1)

SpecRecreate == Init /\ [][NextRecreate]_vars

\* One upload within its TTL, one request at a time, room for a question
\* that is asked again after its Ask failed.  Streams are one chunk long.
NextRetry ==
    \/ PutSession({1})
    \/ Requests({1}, MaxMsgs, 1)

SpecRetry == Init /\ [][NextRetry]_vars

\* Two uploads over time, one request at a time with a single turn on each
\* conversation: the clock, both sweeps, expiry of one handle while the
\* other is live.  Streams are one chunk long.
NextStore ==
    \/ Tick
    \/ PutSession({1, 2})
    \/ SessionSweep
    \/ ConversationSweep
    \/ Requests({1}, MaxMsgs - 1, 1)

SpecStore == Init /\ [][NextStore]_vars

(***************************************************************************)
(* types.TreeNode.AddPath on its own                                       *)
(***************************************************************************)
\* root.AddPath(path) for one entry of the archive or of the repository tree.
AddPathCall ==
    /\ \E parts \in TreePaths : tree' = AddPath(tree, parts)
    /\ UNCHANGED << apiKeySet, sessions, issued, sessionHistory, mu,
                    req, relay, responseChan, ret, sent, gatewayVars, turn, built >>

NextTree == AddPathCall

SpecTree == Init /\ [][NextTree]_vars

(***************************************************************************)
(* The prompt of a long conversation: the question section and the answer  *)
(* append of one conversation on its own, turn after turn                  *)
(***************************************************************************)
\* The questions asked on the conversation so far.
Asked(context) ==
    Cardinality({ i \in 1..Len(context.Messages) : context.Messages[i].Role = "user" })

\* The locked section of an Ask: the question is recorded and the prompt
\* built.
TurnQuestion ==
    /\ ~turn.pending
    /\ Asked(turn.context) < MaxTurns
    /\ LET question == Question(Asked(turn.context) + 1)
           context == appendQuestion(turn.context, question, Now)
       IN  turn' = [context |-> context,
                    prompt |-> buildPrompt(context, question),
                    pending |-> TRUE]
    /\ UNCHANGED << apiKeySet, sessions, issued, sessionHistory, mu,
                    req, relay, responseChan, ret, sent, gatewayVars, tree, built >>

\* The gateway call succeeds and the answer is appended.
TurnAnswer ==
    /\ turn.pending
    /\ LET hist == appendAnswer([k \in {1} |-> turn.context], 1, Str("a1"))
       IN  turn' = [context |-> hist[1], prompt |-> << >>, pending |-> FALSE]
    /\ UNCHANGED << apiKeySet, sessions, issued, sessionHistory, mu,
                    req, relay, responseChan, ret, sent, gatewayVars, tree, built >>

\* The gateway call fails: the Ask returns and the history stays as it is.
TurnFails ==
    /\ turn.pending
    /\ turn' = [turn EXCEPT !.prompt = << >>, !.pending = FALSE]
    /\ UNCHANGED << apiKeySet, sessions, issued, sessionHistory, mu,
                    req, relay, responseChan, ret, sent, gatewayVars, tree, built >>

NextPrompt ==
    \/ TurnQuestion
    \/ TurnAnswer
    \/ TurnFails

SpecPrompt == Init /\ [][NextPrompt]_vars

(***************************************************************************)
(* buildInitialPrompt on its own, over content maps of up to MaxFiles      *)
(* files with lengths on both sides of the 5000 limit                      *)
(***************************************************************************)
\* The path of the i-th file of an extracted content map.
FileNames == << "f01", "f02", "f03", "f04", "f05", "f06", "f07", "f08",
               "f09", "f10", "f11", "f12", "f13", "f14", "f15", "f16" >>
FilePath(i) == FileNames[i]

\* A content map of n files: those of binary are base64 entries, long is
\* one unit over the size limit, exact is right on it, the others are short
\* (0 for long or exact: no such file).  The file on the limit, when there
\* is one, is the first path; the visit orders put it at every place.
ExtractedResult(n, binary, long, exact) ==
    [FileTree |-> << >>,
     FileContents |->
        [k \in { FilePath(i) : i \in 1..n } |->
            LET i == CHOOSE j \in 1..n : FilePath(j) = k
            IN  [Path |-> k,
                 Content |-> [txt |-> k,
                              len |-> IF i = long THEN maxFileChars + 1
                                      ELSE IF i = exact THEN maxFileChars
                                      ELSE 3],
                 IsBase64 |-> i \in binary]]]

\* The orders in which the range loop is made to visit a map of n files:
\* the path order from any starting point.  The files differ only in their
\* kind and any file can have any kind, so every other order is one of
\* these up to the names of the paths.
VisitOrders(n) ==
    { [i \in 1..n |-> FilePath(((start + i - 2) % n) + 1)] : start \in 1..n } \cup { << >> }

\* The extraction hands over a content map.
ExtractFiles ==
    /\ built.result = << >>
    /\ \E n \in 0..MaxFiles, long \in 0..MaxFiles, exact \in {0, 1} :
       \E binary \in SUBSET (1..n) :
          /\ long <= n /\ exact <= n
          /\ Cardinality(binary) <= 2
          /\ built' = [built EXCEPT !.result = << ExtractedResult(n, binary, long, exact) >>]
    /\ UNCHANGED << apiKeySet, sessions, issued, sessionHistory, mu,
                    req, relay, responseChan, ret, sent, gatewayVars, tree, turn >>

\* buildInitialPrompt runs on it.
BuildInitialPromptCall ==
    /\ built.result # << >>
    /\ ~built.done
    /\ \E order \in VisitOrders(Cardinality(DOMAIN built.result[1].FileContents)) :
          /\ Len(order) = Cardinality(DOMAIN built.result[1].FileContents)
          /\ built' = [built EXCEPT !.order = order,
                                    !.prompt = buildInitialPrompt(built.result[1], << >>, order),
                                    !.done = TRUE]
    /\ UNCHANGED << apiKeySet, sessions, issued, sessionHistory, mu,
                    req, relay, responseChan, ret, sent, gatewayVars, tree, turn >>

NextBuild ==
    \/ ExtractFiles
    \/ BuildInitialPromptCall

SpecBuild == Init /\ [][NextBuild]_vars

(***************************************************************************)
(* gemini.Client.SendPrompt on its own                                     *)
(***************************************************************************)
\* SendPrompt is entered: the key check, then the loop variables.
CallSendPrompt ==
    /\ call.pc \in {"idle", "returned"}
    /\ call' = IF ~apiKeySet
               THEN [IdleCall EXCEPT !.pc = "returned", !.err = "no_api_key"]
               ELSE [IdleCall EXCEPT !.pc = "loop", !.retryDelay = retryDelaySeconds]
    /\ UNCHANGED << apiKeySet, sessions, issued, sessionHistory, mu,
                    req, relay, responseChan, ret, sent, unitVars, streamVars >>

\* One pass of the for loop: the sleep before a retry, the HTTP exchange,
\* and what the loop body makes of its outcome.
SendAttempt ==
    /\ call.pc = "loop"
    /\ \E o \in HttpOutcomes :
        LET a == sendPromptAttempt(call.attempt, o)
            backoff == IF call.attempt > 0
                       THEN [call EXCEPT !.slept = Append(@, call.retryDelay),
                                         !.retryDelay = @ * 2]
                       ELSE call
            made == [backoff EXCEPT !.outcomes = Append(@, o)]
            after == IF a.ctl = "break"
                     THEN sendPromptResult(a.response)
                     ELSE sendPromptResult(<< >>)
        IN  call' =
                IF a.ctl = "return"
                THEN [made EXCEPT !.pc = "returned", !.err = a.err]
                ELSE IF a.ctl = "continue" /\ call.attempt + 1 < maxRetries
                THEN [made EXCEPT !.attempt = @ + 1]
                ELSE [made EXCEPT !.pc = "returned", !.response = after.response,
                                  !.err = after.err]
    /\ UNCHANGED << apiKeySet, sessions, issued, sessionHistory, mu,
                    req, relay, responseChan, ret, sent, unitVars, streamVars >>

NextSend ==
    \/ CallSendPrompt
    \/ SendAttempt

SpecSend == Init /\ [][NextSend]_vars

(***************************************************************************)
(* gemini.Client.SendPromptStream on its own: the goroutine it starts, the *)
(* channel it returns, and the receiver of that channel (the goroutine of  *)
(* AskQuestionAboutCodeStream, which returns after the first error chunk). *)
(***************************************************************************)
\* The goroutine arrives at resultChan <- chunk; next says where it goes once
\* the send is done: on with the scan loop ("scan"), out of it ("break"), out
\* of the closure of this attempt ("exit") or out of the goroutine ("return").
push(g, chunk, next) == [g EXCEPT !.pc = "push", !.pending = << chunk >>, !.next = next]

\* The closure of one attempt returns: the deferred resp.Body.Close() runs
\* and the for statement does attempt++.
closureReturns(g) ==
    [g EXCEPT !.pc = "loop", !.bodyOpen = FALSE, !.attempt = @ + 1,
              !.pending = << >>, !.next = ""]

\* The scan loop is over and scanner.Err() is nil: a successful stream sets
\* attempt = maxRetries, then the closure returns.
scanEnded(g) ==
    closureReturns(IF g.successfulStream
                   THEN [g EXCEPT !.attempt = streamMaxRetries]
                   ELSE g)

\* A head of the loop body that sleeps for the doubled delay.
streamBackoffDoubledFirst(g) ==
    IF g.attempt > 0
    THEN [g EXCEPT !.slept = Append(@, g.retryDelay * 2), !.retryDelay = @ * 2]
    ELSE g

\* The head of the loop body: before a retry, time.Sleep(retryDelay) and
\* retryDelay *= 2.  slept lists the sleeps of the call.
streamBackoff(g) ==
    IF g.attempt > 0
    THEN [g EXCEPT !.slept = Append(@, g.retryDelay), !.retryDelay = @ * 2]
    ELSE g

\* What the loop body makes of the outcome o of c.httpClient.Do.
streamAttempt(g, o) ==
    IF o.kind = "transport"
    THEN IF g.attempt < streamMaxRetries - 1
         THEN [g EXCEPT !.attempt = @ + 1]
         ELSE push(g, ErrorChunk("request_failed"), "return")
    ELSE IF o.status < 200 \/ o.status >= 300
    THEN IF o.status >= 500 /\ g.attempt < streamMaxRetries - 1
         THEN closureReturns(g)
         ELSE push([g EXCEPT !.bodyOpen = TRUE],
                   ErrorChunk(IF o.status >= 500 THEN "api_error_5xx"
                                                 ELSE "api_error_4xx"),
                   "exit")
    ELSE [g EXCEPT !.pc = "scan", !.bodyOpen = TRUE, !.successfulStream = FALSE,
                   !.scanned = 0, !.pushed = 0]

\* What scanner.Scan() can come to: a line that is not a data line, the
\* [DONE] marker, a data line that is not JSON, an event with a block
\* reason, an event with content, an event with content and a finish reason,
\* the end of the body, and a read error.
StreamEvents ==
    { "ignored", "done", "unparsable", "blocked", "fragment", "final",
      "eof", "readerr" }

\* One pass of the scan loop, with what follows the loop when it ends.
streamScan(g, kind) ==
    LET s == [g EXCEPT !.scanned = @ + 1]
    IN  CASE kind = "ignored" -> s
          [] kind = "done" -> scanEnded([s EXCEPT !.successfulStream = TRUE])
          [] kind = "unparsable" -> push(s, ErrorChunk("parse_failed"), "scan")
          [] kind = "blocked" -> push(s, ErrorChunk("blocked"), "exit")
          [] kind = "fragment" ->
                push(s, TextChunk(Fragment(g.pushed + 1)), "scan")
          [] kind = "final" ->
                push(s, [TextChunk(Fragment(g.pushed + 1))
                            EXCEPT !.FinishReason = "STOP"], "break")
          [] kind = "eof" -> scanEnded(g)
          [] kind = "readerr" ->
                IF ~g.successfulStream /\ g.attempt < streamMaxRetries - 1
                THEN closureReturns(g)
                ELSE push(g, ErrorChunk("read_failed"), "exit")

\* The send on resultChan is done: a content chunk sets successfulStream,
\* and the goroutine goes where the send was made from.
streamPushed(g) ==
    LET text == g.pending[1].Error = "nil"
        s == [g EXCEPT !.pending = << >>, !.next = "",
                       !.successfulStream = @ \/ text,
                       !.pushed = IF text THEN @ + 1 ELSE @]
    IN  CASE g.next = "scan" -> [s EXCEPT !.pc = "scan"]
          [] g.next = "break" -> scanEnded(s)
          [] g.next = "exit" -> closureReturns(s)
          [] g.next = "return" -> [s EXCEPT !.pc = "done"]

\* SendPromptStream is called: the key check, then the channel is made and
\* the goroutine started.
CallSendPromptStream ==
    /\ gw.pc = "idle"
    /\ IF ~apiKeySet
       THEN /\ gw' = [IdleStream EXCEPT !.pc = "failed", !.err = "no_api_key"]
            /\ UNCHANGED << resultChan, reader >>
       ELSE /\ gw' = [IdleStream EXCEPT !.pc = "loop"]
            /\ resultChan' = NoChan
            /\ reader' = "reading"
    /\ UNCHANGED << apiKeySet, sessions, issued, sessionHistory, mu,
                    req, relay, responseChan, ret, sent, unitVars, call >>

\* One HTTP request of the goroutine: c.httpClient.Do and what the loop body
\* makes of its outcome, up to the scan loop or the first send.
StreamAttempt ==
    /\ gw.pc = "loop"
    /\ gw.attempt < streamMaxRetries
    /\ \E o \in { Transport, Status(400), Status(500), Status(200) } :
          gw' = streamAttempt(streamBackoff([gw EXCEPT !.requests = @ + 1]), o)
    /\ UNCHANGED << apiKeySet, sessions, issued, sessionHistory, mu,
                    req, relay, responseChan, ret, sent, unitVars, call,
                    resultChan, reader >>

\* One pass of the scan loop over a body of at most limit lines.
StreamScan(kinds, limit) ==
    /\ gw.pc = "scan"
    /\ \E kind \in kinds :
          /\ kind \in {"eof", "readerr"} \/ gw.scanned < limit
          /\ gw' = streamScan(gw, kind)
    /\ UNCHANGED << apiKeySet, sessions, issued, sessionHistory, mu,
                    req, relay, responseChan, ret, sent, unitVars, call,
                    resultChan, reader >>

\* resultChan <- chunk completes: there is room in the buffer.  After the
\* send that precedes the goroutine's return, the deferred close runs.
StreamPush ==
    /\ gw.pc = "push"
    /\ occupancy(resultChan) < resultChanCap
    /\ gw' = streamPushed(gw)
    /\ resultChan' = IF gw.next = "return"
                     THEN close(send(resultChan, gw.pending[1]))
                     ELSE send(resultChan, gw.pending[1])
    /\ UNCHANGED << apiKeySet, sessions, issued, sessionHistory, mu,
                    req, relay, responseChan, ret, sent, unitVars, call, reader >>

\* The for loop ends: the goroutine returns and the deferred close runs.
StreamReturn ==
    /\ gw.pc = "loop"
    /\ gw.attempt >= streamMaxRetries
    /\ gw' = [gw EXCEPT !.pc = "done"]
    /\ resultChan' = close(resultChan)
    /\ UNCHANGED << apiKeySet, sessions, issued, sessionHistory, mu,
                    req, relay, responseChan, ret, sent, unitVars, call, reader >>

\* The receiver takes a chunk; after an error chunk it returns and takes no
\* more.
StreamReceive ==
    /\ reader = "reading"
    /\ occupancy(resultChan) > 0
    /\ resultChan' = receive(resultChan)
    /\ reader' = IF front(resultChan).Error # "nil" THEN "stopped" ELSE "reading"
    /\ UNCHANGED << apiKeySet, sessions, issued, sessionHistory, mu,
                    req, relay, responseChan, ret, sent, unitVars, call, gw >>

\* The receiver finds the channel closed and empty: its range loop ends.
StreamReceiveClosed ==
    /\ reader = "reading"
    /\ occupancy(resultChan) = 0
    /\ resultChan.closed
    /\ reader' = "finished"
    /\ UNCHANGED << apiKeySet, sessions, issued, sessionHistory, mu,
                    req, relay, responseChan, ret, sent, unitVars, call, gw, resultChan >>

\* Bodies of a few lines, of every kind.
NextGateway ==
    \/ CallSendPromptStream
    \/ StreamAttempt
    \/ StreamScan(StreamEvents, MaxChunks + 1)
    \/ StreamPush
    \/ StreamReturn
    \/ StreamReceive
    \/ StreamReceiveClosed

SpecGateway == Init /\ [][NextGateway]_vars

\* Both gateway calls side by side, for what they have in common: the
\* waits between their attempts.  Stream bodies are one line long.
NextBackoff ==
    \/ CallSendPrompt
    \/ SendAttempt
    \/ CallSendPromptStream
    \/ StreamAttempt
    \/ StreamScan(StreamEvents, 1)
    \/ StreamPush
    \/ StreamReturn
    \/ StreamReceive
    \/ StreamReceiveClosed

SpecBackoff == Init /\ [][NextBackoff]_vars

\* Bodies with more content events than resultChan can buffer, after at most
\* one line that is not JSON.
NextGatewayLong ==
    \/ CallSendPromptStream
    \/ StreamAttempt
    \/ StreamScan({"unparsable"}, 1)
    \/ StreamScan({"fragment", "eof"}, resultChanCap + 2)
    \/ StreamPush
    \/ StreamReturn
    \/ StreamReceive
    \/ StreamReceiveClosed

SpecGatewayLong == Init /\ [][NextGatewayLong]_vars

(***************************************************************************)
(* Properties                                                              *)
(***************************************************************************)
\* The session of handle h is in the store and not logically expired.
Live(h) == h \in DOMAIN sessions /\ Now - sessions[h].CreatedAt <= expiresIn

\* Goroutine id is inside an LLM Gateway call: SendPrompt, SendPromptStream,
\* or the range over the upstream stream channel.
InGatewayCall(id) ==
    \E p \in Procs :
        \/ id = HandlerId(p) /\ req[p].pc \in {"send", "sendstream"}
        \/ id = RelayId(p) /\ relay[p].pc = "recv"

\* C1: no goroutine holds the Conversation Store lock s.mu while it is inside
\* an LLM Gateway call, so an Ask that waits on the LLM keeps no other Ask from
\* taking the lock and recording its question.
C1_NoLockAcrossGatewayCall ==
    \A p \in Procs :
        /\ InGatewayCall(HandlerId(p)) => mu # HandlerId(p)
        /\ InGatewayCall(RelayId(p)) => mu # RelayId(p)

\* C1 witness: one Ask waits in SendPrompt while another Ask on the same
\* handle holds the lock in its question section.
C1_Witness ==
    \E p, q \in Procs :
        /\ p # q
        /\ req[p].pc = "send"
        /\ req[q].pc = "question"
        /\ mu = HandlerId(q)
        /\ req[p].sessionID = req[q].sessionID

\* The handler of slot p starts an Ask in this step.
AskStarts(p) == req[p].pc = "idle" /\ req'[p].pc = "lock"
\* The handler of slot p answers 404 in this step.
NotFoundReturned(p) == req[p].pc = "idle" /\ ret'.p = p /\ ret'.status = 404

\* C2 as stated: after an Ask on a handle the Session Store does not know
\* (never issued, or expired) has returned NotFound, the Conversation Store
\* holds no entry for that handle.
C2_NoEntryAfterNotFound ==
    ret.status = 404 => ret.sessionID \notin DOMAIN sessionHistory

\* C2 amended: an Ask is started only on a handle the Session Store knows;
\* the step that answers NotFound starts no Ask, sends no prompt and leaves
\* the Conversation Store as it was; and if the handle was never returned by
\* Put, the Conversation Store holds no entry for it afterwards.
C2_NotFoundLeavesStore ==
    [][\A p \in Procs :
          /\ AskStarts(p) => Live(req'[p].sessionID)
          /\ NotFoundReturned(p) =>
                /\ ~Live(ret'.sessionID)
                /\ sessionHistory' = sessionHistory
                /\ req' = req /\ relay' = relay /\ mu' = mu
                /\ sent' = NoPrompt
                /\ (ret'.sessionID \notin issued =>
                        ret'.sessionID \notin DOMAIN sessionHistory')]_vars

\* C2 witness: NotFound was returned for a handle Put never returned, while
\* the Conversation Store holds the conversation of another handle.
C2_Witness ==
    /\ ret.status = 404
    /\ ret.sessionID \notin issued
    /\ sessionHistory # NoSession

\* C3: Get finds a handle exactly when its entry is in the map and
\* now - CreatedAt <= expiresIn, and hands back that entry; an entry older
\* than that which the sweep has not removed is not found; Get leaves the
\* store as it is.
C3_GetFoundIffLive ==
    [][\A p \in Procs :
          /\ AskStarts(p) =>
                /\ Live(req'[p].sessionID)
                /\ req'[p].result = << sessions[req'[p].sessionID].Result >>
                /\ req'[p].analysis = sessions[req'[p].sessionID].ProjectAnalysis
          /\ NotFoundReturned(p) => ~Live(ret'.sessionID)
          /\ (AskStarts(p) \/ NotFoundReturned(p)) => sessions' = sessions]_vars

\* C3 witness: NotFound was returned for an entry that is older than the TTL
\* and still in the map.
C3_Witness ==
    /\ ret.status = 404
    /\ ret.sessionID \in DOMAIN sessions
    /\ Now - sessions[ret.sessionID].CreatedAt > expiresIn

\* C4: in every conversation the roles alternate, beginning with user.
C4_RolesAlternate ==
    \A h \in DOMAIN sessionHistory :
        LET m == sessionHistory[h].Messages
        IN  /\ Len(m) > 0 => m[1].Role = "user"
            /\ \A i \in 1..(Len(m) - 1) : m[i].Role # m[i + 1].Role

\* The number of questions among the messages m.
Questions(m) == Cardinality({ i \in 1..Len(m) : m[i].Role = "user" })

\* C5: right after an Ask has appended the N-th question of a conversation,
\* the conversation holds exactly 2*(N-1)+1 messages.
C5_LengthAfterNthQuestion ==
    sent.p # 0 =>
        LET m == sessionHistory[req[sent.p].sessionID].Messages
        IN  Len(m) = 2 * (Questions(m) - 1) + 1

\* C6: while a Conversation Context stays in the store its history is
\* append-only: over every step, the messages it held are a prefix of the
\* messages it holds.
C6_AppendOnly ==
    [][\A h \in DOMAIN sessionHistory \cap DOMAIN sessionHistory' :
          IsPrefix(sessionHistory[h].Messages, sessionHistory'[h].Messages)]_vars

\* C6 witness: a conversation that has taken three appends.
C6_Witness ==
    \E h \in DOMAIN sessionHistory : Len(sessionHistory[h].Messages) >= 3

\* C7: InitialPrompt is built by the Ask that creates the entry, from the
\* Code Context of that Ask, and no later step on the entry changes it.
C7_InitialPromptBuiltOnce ==
    [][\A h \in DOMAIN sessionHistory' :
          IF h \in DOMAIN sessionHistory
          THEN sessionHistory'[h].InitialPrompt = sessionHistory[h].InitialPrompt
          ELSE \E p \in Procs :
                  /\ req[p].pc = "question"
                  /\ req[p].sessionID = h
                  /\ \E order \in IterationOrders(DOMAIN req[p].result[1].FileContents) :
                        sessionHistory'[h].InitialPrompt =
                            buildInitialPrompt(req[p].result[1], req[p].analysis, order)]_vars

\* C7 witness: a later Ask has just recorded its question in an entry that
\* an earlier Ask created.
C7_Witness ==
    /\ sent.p # 0
    /\ Len(sessionHistory[req[sent.p].sessionID].Messages) >= 2

\* C8: the prompt an Ask hands to the gateway is InitialPrompt + question
\* exactly when the conversation holds one message once the question is
\* appended; otherwise it is InitialPrompt followed by the transcript.
C8_PromptForm ==
    sent.p # 0 =>
        LET r == req[sent.p]
            context == sessionHistory[r.sessionID]
            full == context.InitialPrompt \o Str("\n\n## question\n") \o r.question
        IN  /\ (sent.prompt = full) <=> (Len(context.Messages) = 1)
            /\ Len(context.Messages) # 1 =>
                  /\ sent.prompt = followupPrompt(context)
                  /\ IsPrefix(AppendLine(AppendLine(<< >>, context.InitialPrompt),
                                         Str("\n## conversation history")),
                              sent.prompt)

\* C8 witness: an Ask has just sent the follow-up form on a conversation of
\* three messages.
C8_Witness ==
    /\ sent.p # 0
    /\ Len(sessionHistory[req[sent.p].sessionID].Messages) = 3
    /\ sent.prompt = followupPrompt(sessionHistory[req[sent.p].sessionID])

\* The blocking Ask of slot p returns in this step with an answer.
BlockingAskSucceeds(p) == req[p].pc = "answer" /\ req'[p].pc = "idle"

\* C9: when a blocking Ask succeeds and its entry exists, the step appends
\* exactly one message to that entry, an assistant message holding the answer
\* the gateway returned, changes no other entry, and returns that answer.
C9_AnswerAppended ==
    [][\A p \in Procs : BlockingAskSucceeds(p) =>
          LET h == req[p].sessionID
          IN  /\ ret'.p = p /\ ret'.status = 200 /\ ret'.err = "nil"
              /\ ret'.body = req[p].response
              /\ h \in DOMAIN sessionHistory =>
                    /\ DOMAIN sessionHistory' = DOMAIN sessionHistory
                    /\ sessionHistory'[h].Messages =
                          Append(sessionHistory[h].Messages,
                                 [Role |-> "assistant", Content |-> ret'.body])
                    /\ \A k \in DOMAIN sessionHistory \ {h} :
                          sessionHistory'[k] = sessionHistory[k]]_vars

\* C9 witness: a blocking Ask has returned its answer, which is the last
\* message of the conversation.
C9_Witness ==
    /\ ret.status = 200
    /\ ret.body \in Answers
    /\ ret.sessionID \in DOMAIN sessionHistory
    /\ LET m == sessionHistory[ret.sessionID].Messages
       IN  Len(m) >= 2 /\ m[Len(m)] = [Role |-> "assistant", Content |-> ret.body]

\* The gateway call of the Ask of slot p fails in this step: SendPrompt or
\* SendPromptStream returns an error.
GatewayCallFails(p) == req[p].pc \in {"send", "sendstream"} /\ req'[p].pc = "idle"

Transient(o) ==
    \/ o.kind = "transport"
    \/ o.kind = "response" /\ o.status >= 500
    \/ o.kind = "response" /\ o.status = 200 /\ ~o.decodable
    \/ /\ o.kind = "response" /\ o.status = 200 /\ o.decodable /\ o.blockReason = ""
       /\ (Len(o.candidates) = 0 \/ Len(o.candidates[1]) = 0)
\* The outcome o carries an answer.
Valid(o) ==
    /\ o.kind = "response" /\ o.status = 200 /\ o.decodable /\ o.blockReason = ""
    /\ Len(o.candidates) > 0 /\ Len(o.candidates[1]) > 0
    /\ o.candidates[1][1] # << >>
\* The outcome o is a rejection: a 4xx response or a block reason.
Rejected(o) ==
    \/ o.kind = "response" /\ o.status >= 400 /\ o.status < 500
    \/ o.kind = "response" /\ o.status = 200 /\ o.decodable /\ o.blockReason # ""

\* C11: after k <= 2 exchanges that all failed transiently SendPrompt is
\* still in its loop, about to make exchange k+1; and when exchange k+1 then
\* carries an answer, SendPrompt has returned that answer with no error and
\* has made exactly k+1 exchanges.
C11_RetryThenAnswer ==
    \A k \in 0..2 :
        /\ (/\ Len(call.outcomes) = k /\ k > 0
            /\ \A i \in 1..k : Transient(call.outcomes[i]))
           => call.pc = "loop" /\ call.attempt = k
        /\ (/\ Len(call.outcomes) >= k + 1
            /\ \A i \in 1..k : Transient(call.outcomes[i])
            /\ Valid(call.outcomes[k + 1]))
           => /\ call.pc = "returned"
              /\ call.err = "nil"
              /\ call.response = call.outcomes[k + 1].candidates[1][1]
              /\ Len(call.outcomes) = k + 1

\* C11 witness: two transient failures of different kinds, then an answer.
C11_Witness ==
    /\ Len(call.outcomes) = 3
    /\ call.outcomes[1] = Transport
    /\ call.outcomes[2] = Undecodable
    /\ Valid(call.outcomes[3])
    /\ call.pc = "returned" /\ call.err = "nil"

\* C12: a 4xx response or a block reason, on whichever attempt, is the last
\* exchange of the call, and the call has returned an error.
C12_RejectionNotRetried ==
    \A i \in 1..Len(call.outcomes) :
        Rejected(call.outcomes[i]) =>
            /\ i = Len(call.outcomes)
            /\ call.pc = "returned"
            /\ call.err # "nil"
            /\ call.response = << >>

\* C12 witness: a 4xx on the first attempt, one exchange made.
C12_Witness ==
    /\ call.pc = "returned"
    /\ call.outcomes = << Status(400) >>
    /\ call.err = "api_error"

\* C13: SendPrompt makes at most 3 exchanges; every exchange but the last
\* failed transiently; and a call whose last exchange failed transiently has
\* returned only after the 3rd exchange, with an error.
C13_BoundedRetries ==
    LET n == Len(call.outcomes)
    IN  /\ n <= 3
        /\ \A i \in 1..(n - 1) : Transient(call.outcomes[i])
        /\ (n > 0 /\ Transient(call.outcomes[n]) /\ call.pc = "returned") =>
              /\ n = 3
              /\ call.err # "nil"
              /\ call.response = << >>

\* C13 witness: three transient failures, the last a transport error, and the
\* call has returned the generic failure.
C13_Witness ==
    /\ call.pc = "returned"
    /\ Len(call.outcomes) = 3
    /\ call.outcomes[1] = Status(500)
    /\ call.outcomes[2] = Reply(<< >>)
    /\ call.outcomes[3] = Transport
    /\ call.err = "max_retries"

\* The chunks of a stream that delivers its first n fragments without error.
Fragments(n) == [i \in 1..n |-> TextChunk(Fragment(i))]

\* The texts of the chunks, concatenated in order.
RECURSIVE ConcatText(_, _)
ConcatText(chunks, i) ==
    IF i > Len(chunks) THEN << >> ELSE chunks[i].Text \o ConcatText(chunks, i + 1)

\* While the goroutine of a streamed Ask runs, the caller channel is open and
\* has been sent exactly the fragments taken from the upstream so far, in
\* their order (the one the goroutine is about to send excepted).
ForwardedInOrder ==
    \A p \in Procs :
        relay[p].pc # "idle" =>
            /\ ~responseChan[p].closed
            /\ responseChan[p].buf =
                  Fragments(IF relay[p].pc = "fwd"
                            THEN relay[p].received - 1 ELSE relay[p].received)

\* The goroutine of slot p ends its stream without error in this step.
StreamEndsClean(p) == relay[p].pc = "answer" /\ relay'[p].pc = "idle"

\* C14: when the upstream delivers fragments c1..cn and ends without error,
\* the caller channel has been sent exactly c1..cn in that order, nothing
\* dropped, doubled or added, and is then closed; nothing is sent on it
\* after that.
C14_ForwardedOneToOne ==
    [][/\ ForwardedInOrder'
       /\ \A p \in Procs :
             /\ (StreamEndsClean(p) /\ req[p].pc = "stream") =>
                   /\ responseChan'[p].closed
                   /\ responseChan'[p].buf = Fragments(relay[p].received)
             /\ (responseChan[p].closed /\ req'[p].pc = "stream") =>
                   /\ responseChan'[p].closed
                   /\ responseChan'[p].buf = responseChan[p].buf]_vars

\* C14 witness: the upstream delivered "Hel", "lo" and ended; the handler has
\* read both chunks from the closed channel.
C14_Witness ==
    \E p \in Procs :
        /\ req[p].pc = "stream"
        /\ relay[p].pc = "idle"
        /\ responseChan[p].closed
        /\ responseChan[p].buf = << TextChunk(Str("Hel")), TextChunk(Str("lo")) >>
        /\ responseChan[p].read = 2

\* C15: when the upstream of a streamed Ask ends without error and the entry
\* exists, the goroutine appends exactly one message, after the stream has
\* ended: an assistant message whose content is the texts of the chunks
\* forwarded on the caller channel, concatenated in order; no earlier step
\* of the goroutine touches the history.
C15_StreamedAnswerAppended ==
    [][\A p \in Procs :
          /\ (StreamEndsClean(p) /\ relay[p].sessionID \in DOMAIN sessionHistory) =>
                LET h == relay[p].sessionID
                IN  /\ DOMAIN sessionHistory' = DOMAIN sessionHistory
                    /\ sessionHistory'[h].Messages =
                          Append(sessionHistory[h].Messages,
                                 [Role |-> "assistant",
                                  Content |-> ConcatText(responseChan[p].buf, 1)])
                    /\ \A k \in DOMAIN sessionHistory \ {h} :
                          sessionHistory'[k] = sessionHistory[k]
          /\ (relay[p].pc \in {"recv", "fwd", "fwderr"} /\ relay'[p] # relay[p]) =>
                sessionHistory' = sessionHistory]_vars

\* C15 witness: the history ends with the assistant message "Hello" put
\* together from the fragments "Hel" and "lo".
C15_Witness ==
    \E h \in DOMAIN sessionHistory :
        LET m == sessionHistory[h].Messages
        IN  /\ Len(m) = 2
            /\ m[2] = [Role |-> "assistant", Content |-> Str("Hel") \o Str("lo")]

\* C18: on the caller channel of a streamed Ask an error chunk is the last
\* chunk sent, and the channel is closed after it.
C18_ErrorChunkIsLast ==
    \A p \in Procs :
        \A i \in 1..Len(responseChan[p].buf) :
            responseChan[p].buf[i].Error # "nil" =>
                /\ i = Len(responseChan[p].buf)
                /\ responseChan[p].closed
                /\ relay[p].pc = "idle"

\* C18 witness: a fragment, then an error chunk, and the channel is closed.
C18_Witness ==
    \E p \in Procs :
        /\ responseChan[p].closed
        /\ Len(responseChan[p].buf) = 2
        /\ responseChan[p].buf[1].Error = "nil"
        /\ responseChan[p].buf[2].Error # "nil"

\* C19: after the client has gone, the goroutine of a streamed Ask is never
\* held up in responseChan <- chunk, so it drains the upstream and records
\* the answer however many fragments remain.
C19_RelayNeverBlocked ==
    \A p \in Procs :
        ~(/\ relay[p].pc \in {"fwd", "fwderr"}
          /\ req[p].pc # "stream"
          /\ occupancy(responseChan[p]) = respChanCap)

\* The goroutine of SendPromptStream has pushed a chunk with this property.
Pushed(P(_)) == \E i \in 1..Len(resultChan.buf) : P(resultChan.buf[i])

IsFragment(chunk) == chunk.Error = "nil"
IsRejection(chunk) == chunk.Error \in {"api_error_4xx", "blocked"}

\* C16: once SendPromptStream has pushed a content fragment on its channel,
\* it issues no further HTTP request for that call.
C16_NoRequestAfterFragment ==
    [][Pushed(IsFragment) => gw'.requests = gw.requests]_vars

\* C17: once SendPromptStream has pushed the error chunk of a 4xx response
\* or of an event with a block reason, it issues no further HTTP request for
\* that call.
C17_NoRequestAfterRejection ==
    [][Pushed(IsRejection) => gw'.requests = gw.requests]_vars

\* C20: the goroutine of SendPromptStream is never held up for good in
\* resultChan <- chunk with the response body open and the channel not
\* closed: the receiver has returned and the buffer is full.
C20_GatewayNeverBlocked ==
    ~(/\ gw.pc = "push"
      /\ gw.bodyOpen
      /\ ~resultChan.closed
      /\ reader = "stopped"
      /\ occupancy(resultChan) = resultChanCap)

\* The goroutine that holds s.mu stands at a step that waits for nothing:
\* the locked section of an Ask or an answer append.
LockHolderRuns ==
    \A p \in Procs :
        /\ mu = HandlerId(p) => req[p].pc \in {"question", "answer"}
        /\ mu = RelayId(p) => relay[p].pc = "answer"

\* An Ask in flight waits for nothing but s.mu, a gateway reply, or a chunk.
AskCanGoOn ==
    \A p \in Procs :
        /\ req[p].pc \in {"lock", "anslock"} => (mu = 0 \/ ~(mu = HandlerId(p)))
        /\ mu = 0 => /\ req[p].pc = "lock" => ENABLED AskLock(p)
                     /\ req[p].pc = "anslock" => ENABLED AnswerLock(p)
                     /\ (relay[p].pc = "recv") => ENABLED RelayLock(p)
        /\ req[p].pc = "question" => ENABLED AskQuestion(p)
        /\ req[p].pc = "answer" => ENABLED AnswerAppend(p)
        /\ relay[p].pc = "answer" => ENABLED RelayAppend(p)

\* The message this step appends under handle h, if it is a step of an Ask
\* made with h: its question, or the answer to it.
AppendedBy(p, h) ==
    IF req[p].pc = "question" /\ req[p].sessionID = h
    THEN << [Role |-> "user", Content |-> req[p].question] >>
    ELSE IF req[p].pc = "answer" /\ req[p].sessionID = h
    THEN << [Role |-> "assistant", Content |-> req[p].response] >>
    ELSE IF relay[p].pc = "answer" /\ relay[p].sessionID = h
    THEN << [Role |-> "assistant", Content |-> relay[p].builder] >>
    ELSE << >>

MessagesOf(hist, h) == IF h \in DOMAIN hist THEN hist[h].Messages ELSE << >>

Expired(h) == h \in issued /\ ~Live(h)

\* C22: once more than expiresIn has passed since the Put of a session, Get
\* finds it no more, in that state and in every later one (a request that
\* names it is answered 404 and starts no Ask); a pass of the sweep removes
\* exactly the entries with now - CreatedAt > expiresIn, so such an entry is
\* out of the map after the pass, and every other entry stays as it was.
C22_ExpiredThenSwept ==
    [][/\ \A h \in Handles :
             Expired(h) =>
                /\ ~Get(sessions, h, Now).exists
                /\ Expired(h)'
                /\ \A p \in Procs : ~(AskStarts(p) /\ req'[p].sessionID = h)
       /\ SessionSweep =>
             /\ DOMAIN sessions' =
                   { k \in DOMAIN sessions : Now - sessions[k].CreatedAt <= expiresIn }
             /\ \A k \in DOMAIN sessions' : sessions'[k] = sessions[k]
             /\ \A h \in Handles : Expired(h) => h \notin DOMAIN sessions']_vars

\* C22 witness: a pass of the sweep has removed the expired entry of handle 1
\* and left that of handle 2, which is exactly expiresIn old.
C22_Witness ==
    /\ 1 \in issued
    /\ 1 \notin DOMAIN sessions
    /\ 2 \in DOMAIN sessions
    /\ Now - sessions[2].CreatedAt = expiresIn

\* The time since the last question on the conversation of handle h.
Idle(h) == Now - sessionHistory[h].LastActive

\* The locked section of the Ask of slot p is done in this step.
QuestionRecorded(p) == req[p].pc = "question" /\ req'[p].pc # "question"

PutReturns(h) == h \notin issued /\ h \in issued'

\* C24: Put adds exactly one entry, under a handle that was no key of the
\* map and was returned by no earlier Put, with CreatedAt = now, and leaves
\* every other entry as it was; from then on Get finds the handle as long as
\* no more than expiresIn has passed since the Put (no step removes the entry
\* before that).
C24_PutAddsOneFreshEntry ==
    [][\A h \in Handles :
          /\ PutReturns(h) =>
                /\ h \notin DOMAIN sessions
                /\ DOMAIN sessions' = DOMAIN sessions \cup {h}
                /\ issued' = issued \cup {h}
                /\ sessions'[h].CreatedAt = Now
                /\ sessions'[h].Result = PutInput(h).result
                /\ sessions'[h].ProjectAnalysis = PutInput(h).analysis
                /\ \A k \in DOMAIN sessions : sessions'[k] = sessions[k]
                /\ Get(sessions', h, Now).exists
          /\ (h \in DOMAIN sessions /\ h \notin DOMAIN sessions') =>
                Now - sessions[h].CreatedAt > expiresIn
          /\ (h \in DOMAIN sessions /\ Now - sessions[h].CreatedAt <= expiresIn) =>
                /\ Get(sessions, h, Now).exists
                /\ Get(sessions, h, Now).data = << sessions[h] >>]_vars

\* C24 witness: two Puts, expiresIn apart, have each added an entry; both
\* handles are found.
C24_Witness ==
    /\ issued = {1, 2}
    /\ DOMAIN sessions = {1, 2}
    /\ sessions[1].CreatedAt = Now - expiresIn
    /\ sessions[2].CreatedAt = Now
    /\ Get(sessions, 1, Now).exists /\ Get(sessions, 2, Now).exists

\* A request goroutine or a goroutine of a streamed Ask takes a step.
RequestStep == req' # req \/ relay' # relay \/ ret' # NoRet

BlockingAskReturns(p) == req[p].pc = "answer" /\ req'[p].pc = "idle"

ErrorForwarded(p) == relay[p].pc = "fwderr" /\ relay'[p] # relay[p]

RECURSIVE ParentsAreDirs(_)
ParentsAreDirs(n) ==
    /\ DOMAIN n.Children # {} => n.IsDir
    /\ \A k \in DOMAIN n.Children : ParentsAreDirs(n.Children[k])

\* C28: in a tree built by AddPath calls, every node AddPath has made that
\* has children is marked as a directory (so one marked as a file has none).
C28_ParentsAreDirectories ==
    \A k \in DOMAIN tree.Children : ParentsAreDirs(tree.Children[k])

\* One message of the transcript: "\n" role ": " content "\n".
Rendered(m) == Str("\n") \o Str(m.Role) \o Str(": ") \o m.Content \o Str("\n")

\* The messages msgs[i..], rendered one after the other.
RECURSIVE Transcript(_, _)
Transcript(msgs, i) ==
    IF i > Len(msgs) THEN << >> ELSE Rendered(msgs[i]) \o Transcript(msgs, i + 1)

Min(a, b) == IF a <= b THEN a ELSE b

\* C29: the follow-up prompt of a conversation with n >= 2 messages is the
\* initial prompt as stored, the history header, and the min(n, 10) latest
\* messages in their order, each rendered as role: content; nothing of an
\* older message is in it.
C29_LastTenMessages ==
    LET msgs == turn.context.Messages
        n == Len(msgs)
    IN  (turn.pending /\ n >= 2) =>
           /\ turn.context.InitialPrompt = NoTurn.context.InitialPrompt
           /\ turn.prompt =
                 turn.context.InitialPrompt \o Str("\n")
                 \o Str("\n## conversation history") \o Str("\n")
                 \o Transcript(SubSeq(msgs, n - Min(n, historyWindow) + 1, n), 1)

\* C29 witness: the 11th question on a conversation whose ten earlier
\* questions were all answered: 21 messages, of which the prompt renders
\* the 12th to the 21st.
C29_Witness ==
    /\ turn.pending
    /\ Len(turn.context.Messages) = 21
    /\ Asked(turn.context) = 11
    /\ turn.prompt # << >>
    /\ turn.prompt # followupPromptUnwindowed(turn.context)

\* The places of the prompt that hold a file body.
BodyPlaces(prompt) == { i \in 1..Len(prompt) : prompt[i].n # -1 }

TruncationMarker == Lit("...(truncated)")

\* C30: whatever the number and the sizes of the files, the initial prompt
\* holds at most 10 file bodies and none of a base64 entry; a body is the
\* whole content when it is at most 5000 long, and else its first 5000
\* units followed by the truncation marker; the marker follows truncated
\* bodies only.
C30_FileBodiesCappedAndTruncated ==
    built.done =>
       LET prompt == built.prompt
           contents == built.result[1].FileContents
       IN  /\ Cardinality(BodyPlaces(prompt)) <= maxPromptFiles
           /\ \A i \in BodyPlaces(prompt) :
                 LET content == contents[prompt[i].txt]
                 IN  /\ ~content.IsBase64
                     /\ i < Len(prompt)
                     /\ IF content.Content.len <= maxFileChars
                        THEN /\ prompt[i].n = content.Content.len
                             /\ prompt[i + 1] = Lit("\n")
                        ELSE /\ prompt[i].n = maxFileChars
                             /\ prompt[i + 1] = TruncationMarker
           /\ \A path \in DOMAIN contents :
                 contents[path].IsBase64 =>
                    \A i \in 1..Len(prompt) : prompt[i].txt # path
           /\ \A i \in 1..Len(prompt) :
                 prompt[i] = TruncationMarker =>
                    /\ i - 1 \in BodyPlaces(prompt)
                    /\ contents[prompt[i - 1].txt].Content.len > maxFileChars

\* C30 witness: a map of 12 files, one of them base64 and skipped, one
\* too long and cut, one right on the limit and whole: ten bodies are in
\* the prompt and the eleventh text file is left out.
C30_Witness ==
    /\ built.done
    /\ Len(built.order) = 12
    /\ \E path \in DOMAIN built.result[1].FileContents :
          built.result[1].FileContents[path].IsBase64
    /\ Cardinality(BodyPlaces(built.prompt)) = maxPromptFiles
    /\ \E i \in 1..Len(built.prompt) : built.prompt[i] = TruncationMarker
    /\ \E i \in BodyPlaces(built.prompt) : built.prompt[i].n = maxFileChars
                                           /\ built.prompt[i + 1] = Lit("\n")
    /\ \E path \in DOMAIN built.result[1].FileContents :
          /\ ~built.result[1].FileContents[path].IsBase64
          /\ \A i \in 1..Len(built.prompt) : built.prompt[i].txt # path

\* The locked section of the Ask of slot p runs in this step.
QuestionStep(p) == req[p].pc = "question" /\ req'[p].pc # "question"

\* C31: a failed gateway call leaves the conversation ending with the
\* question of the Ask and no answer; a question recorded on a conversation
\* that ends with an unanswered question makes two user messages in a row,
\* and when that conversation held the one question of a failed first turn
\* the prompt sent is the transcript form over both messages, not the
\* first-turn form.
C31_RetryAfterFailedAsk ==
    [][\A p \in Procs :
          LET h == req[p].sessionID
              old == MessagesOf(sessionHistory, h)
              new == MessagesOf(sessionHistory', h)
          IN  /\ GatewayCallFails(p) =>
                    /\ new = old
                    /\ old # << >>
                    /\ old[Len(old)] = [Role |-> "user", Content |-> req[p].question]
              /\ (QuestionStep(p) /\ old # << >> /\ old[Len(old)].Role = "user") =>
                    /\ new = Append(old, [Role |-> "user", Content |-> req[p].question])
                    /\ new[Len(new) - 1].Role = "user"
                    /\ sent'.p = p
                    /\ Len(old) = 1 =>
                          /\ sent'.prompt =
                                sessionHistory'[h].InitialPrompt \o Str("\n")
                                \o Str("\n## conversation history") \o Str("\n")
                                \o Transcript(new, 1)
                          /\ sent'.prompt #
                                sessionHistory'[h].InitialPrompt
                                \o Str("\n\n## question\n") \o req[p].question]_vars

\* C31 witness: the first Ask on the handle failed and the question is asked
\* again: the history is two user messages and the prompt has the transcript
\* form.
C31_Witness ==
    /\ sent.p = 1
    /\ req[1].pc \in {"send", "sendstream"}
    /\ relay[1].pc = "idle"
    /\ MessagesOf(sessionHistory, req[1].sessionID) =
          << [Role |-> "user", Content |-> Question(1)],
             [Role |-> "user", Content |-> Question(1)] >>
    /\ sent.prompt = followupPrompt(sessionHistory[req[1].sessionID])

IsError(chunk) == chunk.Error # "nil"

\* C32: on the channel SendPromptStream returns an error chunk is the last
\* one: once an error chunk has been pushed, the goroutine pushes no chunk
\* more and issues no further HTTP request.
C32_ErrorChunkTerminal ==
    [][Pushed(IsError) => /\ resultChan'.buf = resultChan.buf
                          /\ gw'.requests = gw.requests]_vars

\* The waits are retryDelaySeconds, then each twice the one before.
Doubling(slept) ==
    \A i \in 1..Len(slept) :
        slept[i] = IF i = 1 THEN retryDelaySeconds ELSE 2 * slept[i - 1]

RECURSIVE Sum(_, _)
Sum(seq, i) == IF i > Len(seq) THEN 0 ELSE seq[i] + Sum(seq, i + 1)

\* C33: SendPrompt waits nothing before its first attempt, 2 s before the
\* second and 4 s before the third, 6 s at most in all; SendPromptStream
\* waits nothing before its first attempt, 2 s before the second, and makes
\* no third one.
C33_BackoffDoubles ==
    /\ Len(call.outcomes) <= 3
    /\ Len(call.outcomes) > 0 => Len(call.slept) = Len(call.outcomes) - 1
    /\ call.slept \in { << >>, << 2 >>, << 2, 4 >> }
    /\ Doubling(call.slept)
    /\ Sum(call.slept, 1) <= 6
    /\ gw.requests <= 2
    /\ gw.requests > 0 => Len(gw.slept) = gw.requests - 1
    /\ gw.slept \in { << >>, << 2 >> }
    /\ gw.pc \in {"idle", "failed"} => gw.slept = << >>

\* C33 witness: a SendPrompt call has made its third attempt and a
\* SendPromptStream call its second.
C33_Witness ==
    /\ Len(call.outcomes) = 3
    /\ call.slept = << 2, 4 >>
    /\ gw.requests = 2
    /\ gw.slept = << 2 >>

\* The names of the lines of a rendering, in order: a line is a prefix, a
\* connector, the name and "\n".
RECURSIVE PrintedNames(_, _)
PrintedNames(text, i) ==
    IF i > Len(text) THEN << >>
    ELSE IF text[i] = Lit("\n")
    THEN << text[i - 1].txt >> \o PrintedNames(text, i + 1)
    ELSE PrintedNames(text, i + 1)

\* The names of the children of n that are directories (or, with isDir
\* FALSE, files), in ascending order.
ChildNames(n, isDir) ==
    SelectSeq(NameOrder, LAMBDA name : /\ name \in DOMAIN n.Children
                                       /\ n.Children[name].IsDir = isDir)

\* The names of the nodes below n, each once: under every node the
\* directories before the files, both in ascending order, and every child
\* followed by what is below it.
RECURSIVE Listing(_)
RECURSIVE ListingOf(_, _, _)
Listing(n) ==
    LET names == ChildNames(n, TRUE) \o ChildNames(n, FALSE)
    IN  ListingOf(n, names, 1)

ListingOf(n, names, i) ==
    IF i > Len(names) THEN << >>
    ELSE << names[i] >> \o Listing(n.Children[names[i]]) \o ListingOf(n, names, i + 1)

\* C34: the rendering of a tree has one line for every node below the root,
\* and under every node the children marked directory come before those
\* marked file, each group in ascending order of the names.
C34_EveryNodeListedInOrder ==
    PrintedNames(PrintNode(tree, << >>, TRUE), 1) = Listing(tree)

\* C35: an Ask whose conversation was evicted while its gateway call was
\* in flight appends its answer to no conversation, whether or not another
\* Ask has made a new conversation for the handle since.
C35_AnswerOnlyToOwnContext ==
    [][\A p \in Procs :
          /\ (req[p].evicted /\ BlockingAskReturns(p)) => sessionHistory' = sessionHistory
          /\ (relay[p].evicted /\ StreamEndsClean(p)) => sessionHistory' = sessionHistory]_vars

RoleCount(m, n, role) == Cardinality({ i \in 1..n : m[i].Role = role })

\* C37: in every prefix of the history of every conversation there are at
\* most as many assistant messages as user messages.
C37_AnswersNeverOutnumberQuestions ==
    \A h \in DOMAIN sessionHistory :
        LET m == sessionHistory[h].Messages
        IN  \A n \in 0..Len(m) : RoleCount(m, n, "assistant") <= RoleCount(m, n, "user")

\* C38: whenever s.mu is free, every entry of the Conversation Store holds
\* at least one message and its first message is a user message.
C38_NoEmptyConversation ==
    mu = 0 =>
        \A h \in DOMAIN sessionHistory :
            /\ Len(sessionHistory[h].Messages) >= 1
            /\ sessionHistory[h].Messages[1].Role = "user"

\* C38 witness: an Ask has just made the entry of its handle, with its
\* question in it, and released s.mu.
C38_Witness ==
    /\ sent.p # 0
    /\ mu = 0
    /\ sessionHistory[req[sent.p].sessionID].Messages =
          << [Role |-> "user", Content |-> req[sent.p].question] >>

\* C39: the channel SendPromptStream returned is not closed empty: by the
\* time it is closed, a content fragment or an error chunk has been pushed
\* on it.
C39_NeverClosedSilently ==
    resultChan.closed => Len(resultChan.buf) >= 1

\* The exchange brought a well-formed answer whose first part is empty text.
EmptyText(o) ==
    /\ o.kind = "response" /\ o.status = 200 /\ o.decodable /\ o.blockReason = ""
    /\ Len(o.candidates) > 0 /\ Len(o.candidates[1]) > 0
    /\ o.candidates[1][1] = << >>

\* C40: SendPrompt returns without error only with an answer that is not
\* empty; an exchange that brings an answer of empty text is the last one of
\* the call, which returns an error and no answer.
C40_NoEmptySuccess ==
    /\ (call.pc = "returned" /\ call.err = "nil") => call.response # << >>
    /\ \A i \in 1..Len(call.outcomes) :
          EmptyText(call.outcomes[i]) =>
             /\ i = Len(call.outcomes)
             /\ call.pc = "returned"
             /\ call.err # "nil"
             /\ call.response = << >>

\* C40 witness: the call was retried once and then got an answer of empty
\* text: it has returned an error after two exchanges.
C40_Witness ==
    /\ Len(call.outcomes) = 2
    /\ call.outcomes[1] = Transport
    /\ EmptyText(call.outcomes[2])
    /\ call.pc = "returned"
    /\ call.err = "max_retries"

====
